---- MODULE Spec2Model ----
(***************************************************************************)
(* A model of the combinator layer of uasat (src/uasat): relations and     *)
(* operations over a finite universe stored as flattened truth tables of   *)
(* SAT literals, and the combinators polymer, fold_*, evaluate, compose.   *)
(*                                                                         *)
(* The only mutable state of the library is the SAT context (Solver): the  *)
(* variables and gates it has allocated and the constraints asserted in    *)
(* it.  Relation / Operation objects are immutable values.  Every library  *)
(* call is modelled as an operator on a "thread" record                    *)
(*     [ctx |-> the live solvers, val |-> the value in hand, err |-> ""]   *)
(* where err names the exception that ended the call ("" = none).          *)
(*                                                                         *)
(* Python sequences are 0-based, TLA+ sequences 1-based: cell p of a table *)
(* is literals[p + 1].                                                     *)
(***************************************************************************)
EXTENDS Integers, Sequences, FiniteSets, TLC

VARIABLES
    ctx,    \* the live SAT contexts: solver id -> [defs, clauses]
    rel,    \* the Relation / Operation the call is made on (self)
    opers,  \* the list argument of the call (operations, args)
    arg,    \* the scalar arguments of the call
    call,   \* the name of the call made last ("init" before any)
    out,    \* what the call returned: [val, err]
    found   \* the models an enumeration loop has reported so far

vars == <<ctx, rel, opers, arg, call, out, found>>

(***************************************************************************)
(* Bounds of the model.                                                    *)
(***************************************************************************)
MaxSize == 3
MaxArity == 3
MaxSeed == 7
PatternWidth == 5
MaxOperArity == 4
MaxOperSeed == 3
MaxFuncSeed == 7
MaxArgSeed == 3
MaxInner == 2
MaxVars == 9
MaxLen == 2
MaxPhase == 15
MaxCalls == 3
MaxDepth == 3
MaxBinder == 2
MaxCells == 729

(***************************************************************************)
(* The literal layer (Solver of the extension module).                     *)
(***************************************************************************)
SolverTRUE == 1
SolverFALSE == -1

CALC == "CALC"
SolverIds == {"s1", "s2"}

bool_lift(b) == IF b THEN SolverTRUE ELSE SolverFALSE

IsConst(lit) == lit = SolverTRUE \/ lit = SolverFALSE

AllConst(lits) == \A i \in DOMAIN lits : IsConst(lits[i])

CountTrue(lits) == Cardinality({i \in DOMAIN lits : lits[i] = SolverTRUE})

\* The calculator: the value of a literal combinator on constant literals.
CalcGate(kind, ins) ==
    CASE kind = "all" -> bool_lift(CountTrue(ins) = Len(ins))
      [] kind = "any" -> bool_lift(CountTrue(ins) >= 1)
      [] kind = "one" -> bool_lift(CountTrue(ins) = 1)
      [] kind = "amo" -> bool_lift(CountTrue(ins) <= 1)
      [] kind = "xor" -> bool_lift(CountTrue(ins) % 2 = 1)
      [] kind = "equ" -> bool_lift(ins[1] = ins[2])
      [] kind = "lt"  -> bool_lift(ins[1] = SolverFALSE /\ ins[2] = SolverTRUE)
      [] kind = "iff" -> IF ins[1] = SolverTRUE THEN ins[2] ELSE ins[3]

EmptySolver == [defs |-> <<>>, clauses |-> <<>>]

NoSolvers == [s \in SolverIds |-> EmptySolver]

\* Solver.__or__: the join of two contexts, "" when they are two live ones.
Join(a, b) ==
    IF a = CALC THEN b
    ELSE IF b = CALC \/ a = b THEN a
    ELSE ""

\* A batch of literal combinators on one solver: request i is [kind, ins].
\* On constants the result is the calculator's; otherwise a fresh literal
\* defined by the gate.  Literal k + 1 is the k-th definition of the solver.
NeedsGate(req) == ~AllConst(req.ins)

BatchLits(st, sid, reqs) ==
    IF sid = CALC
    THEN [i \in 1..Len(reqs) |-> CalcGate(reqs[i].kind, reqs[i].ins)]
    ELSE LET base == Len(st.defs) + 1
             rank(i) == Cardinality({j \in 1..i : NeedsGate(reqs[j])})
         IN  [i \in 1..Len(reqs) |->
                 IF NeedsGate(reqs[i]) THEN base + rank(i)
                 ELSE CalcGate(reqs[i].kind, reqs[i].ins)]

BatchDefs(st, sid, reqs) ==
    IF sid = CALC THEN st
    ELSE [st EXCEPT !.defs = @ \o SelectSeq(reqs, NeedsGate)]

Batch(c, sid, reqs) ==
    IF sid = CALC THEN c
    ELSE [c EXCEPT ![sid] = BatchDefs(c[sid], sid, reqs)]

SolverOf(c, sid) == IF sid = CALC THEN EmptySolver ELSE c[sid]

(***************************************************************************)
(* Threads.                                                                *)
(***************************************************************************)
NoBitVec == [solver |-> CALC, literals |-> <<>>]
NoValue == [size |-> 0, arity |-> 0, table |-> NoBitVec]

Ok(c, v) == [ctx |-> c, val |-> v, err |-> ""]
Raise(c, e) == [ctx |-> c, val |-> NoValue, err |-> e]

BitVec(sid, lits) == [solver |-> sid, literals |-> lits]

\* BitVec.new_variable(solver, length)
new_variable(c, sid, length) ==
    LET base == Len(c[sid].defs) + 1
        fresh == [i \in 1..length |-> [kind |-> "var", ins |-> <<>>]]
    IN  Ok([c EXCEPT ![sid].defs = @ \o fresh],
           BitVec(sid, [i \in 1..length |-> base + i]))

(***************************************************************************)
(* The BitVec layer.                                                       *)
(***************************************************************************)
\* ~u: literal negation, no gate.
BitVecNot(c, u) == Ok(c, BitVec(u.solver, [i \in 1..Len(u.literals) |-> -u.literals[i]]))

\* u & v, u | v, u ^ v (kind "all", "any", "xor"): elementwise, on the join
\* of the two contexts.
BitVecBin(kind, c, u, v) ==
    LET sid == Join(u.solver, v.solver)
        reqs == [i \in 1..Len(u.literals) |->
                    [kind |-> kind, ins |-> <<u.literals[i], v.literals[i]>>]]
    IN  IF sid = "" THEN Raise(c, "ValueError")
        ELSE IF Len(u.literals) # Len(v.literals) THEN Raise(c, "AssertionError")
        ELSE Ok(Batch(c, sid, reqs), BitVec(sid, BatchLits(SolverOf(c, sid), sid, reqs)))

\* u.slice(start, end), Python bounds.
slice(u, start, end) == BitVec(u.solver, SubSeq(u.literals, start + 1, end))

\* BitVec.fold_all / fold_any of the whole vector: a one-literal BitVec.
BitVecFold(kind, c, u) ==
    LET reqs == <<[kind |-> kind, ins |-> u.literals]>>
    IN  Ok(Batch(c, u.solver, reqs),
           BitVec(u.solver, BatchLits(SolverOf(c, u.solver), u.solver, reqs)))

\* u.comp_eq(v): one literal, all cells pairwise equivalent.
BitVecCompEq(c, u, v) ==
    LET e == BitVecBin("equ", c, u, v)
    IN  IF e.err # "" THEN e ELSE BitVecFold("all", e.ctx, e.val)

\* An assertion in the context: ensure_all / ensure_any / ensure_one /
\* ensure_amo.  On the calculator a false constraint is an error.
Ensure(kind, c, u) ==
    IF u.solver = CALC
    THEN IF CalcGate(kind, u.literals) = SolverTRUE THEN Ok(c, u)
         ELSE Raise(c, "AssertionError")
    ELSE Ok([c EXCEPT ![u.solver].clauses =
                 Append(@, [kind |-> kind, lits |-> u.literals])], u)

(***************************************************************************)
(* Relation (src/uasat/relation.py).                                       *)
(***************************************************************************)
Rel(size, arity, table) == [size |-> size, arity |-> arity, table |-> table]

\* Relation.__init__ on a BitVec.
RelationInit(c, size, arity, table) ==
    IF ~(size >= 1 /\ arity >= 0) THEN Raise(c, "AssertionError")
    ELSE IF Len(table.literals) # size ^ arity THEN Raise(c, "AssertionError")
    ELSE Ok(c, Rel(size, arity, table))

\* A constructor taking a list of any length.
RelationBools_NoLengthCheck(c, size, arity, bools) ==
    IF ~(size >= 1 /\ arity >= 0) THEN Raise(c, "AssertionError")
    ELSE Ok(c, Rel(size, arity, BitVec(CALC, [i \in 1..Len(bools) |-> bool_lift(bools[i])])))

\* Relation.__init__ on a host-level list of booleans.
RelationBools(c, size, arity, bools) ==
    IF ~(size >= 1 /\ arity >= 0) THEN Raise(c, "AssertionError")
    ELSE IF Len(bools) # size ^ arity THEN Raise(c, "AssertionError")
    ELSE Ok(c, Rel(size, arity,
                   BitVec(CALC, [i \in 1..Len(bools) |-> bool_lift(bools[i])])))

\* Relation.__init__ on a Solver: fresh variables.
RelationVariable(c, size, arity, sid) ==
    IF ~(size >= 1 /\ arity >= 0) THEN Raise(c, "AssertionError")
    ELSE LET v == new_variable(c, sid, size ^ arity)
         IN  Ok(v.ctx, Rel(size, arity, v.val))

\* digit idx of the flat index k in base n: the odometer's indices[idx]
\* after k steps.
Digit(k, idx, n) == (k \div (n ^ idx)) % n

RECURSIVE SumUpTo(_, _)
SumUpTo(f, n) == IF n = 0 THEN 0 ELSE f[n] + SumUpTo(f, n - 1)

\* Strides with "strides[var] = length" in place of "+=".
Strides_Overwrite(size, new_vars, new_arity) ==
    [v \in 0..(new_arity - 1) |->
        IF \E i \in 1..Len(new_vars) : new_vars[i] = v
        THEN size ^ ((CHOOSE i \in 1..Len(new_vars) :
                         /\ new_vars[i] = v
                         /\ \A j \in 1..Len(new_vars) : new_vars[j] = v => j <= i) - 1)
        ELSE 0]

\* strides[var] += length; length *= size, over new_vars in order.
Strides(size, new_vars, new_arity) ==
    [v \in 0..(new_arity - 1) |->
        SumUpTo([i \in 1..Len(new_vars) |->
                    IF new_vars[i] = v THEN size ^ (i - 1) ELSE 0],
                Len(new_vars))]

\* The table polymer builds: at step k the odometer holds the digits of k
\* and pos is the sum of indices[idx] * strides[idx]; `first` is the start
\* value of length (1 for a Relation, size for an Operation) and `width`
\* the number of cells copied per step.
PolymerTable(lits, size, new_vars, new_arity, first, width) ==
    LET strides == Strides(size, new_vars, new_arity)
        pos(k) == SumUpTo([j \in 1..new_arity |->
                              Digit(k, j - 1, size) * strides[j - 1] * first],
                          new_arity)
    IN  [p \in 1..(width * size ^ new_arity) |->
            lits[pos((p - 1) \div width) + ((p - 1) % width) + 1]]

\* Relation.polymer(new_vars, new_arity) with new_arity given.
polymer(s, new_vars, new_arity) ==
    IF s.err # "" THEN s
    ELSE IF Len(new_vars) # s.val.arity THEN Raise(s.ctx, "AssertionError")
    ELSE IF \E i \in 1..Len(new_vars) : ~(0 <= new_vars[i] /\ new_vars[i] < new_arity)
         THEN Raise(s.ctx, "AssertionError")
    ELSE RelationInit(s.ctx, s.val.size, new_arity,
            BitVec(s.val.table.solver,
                   PolymerTable(s.val.table.literals, s.val.size,
                                new_vars, new_arity, 1, 1)))

RECURSIVE MaxOf(_, _)
MaxOf(seq, n) ==
    IF n = 1 THEN seq[1]
    ELSE LET m == MaxOf(seq, n - 1) IN IF seq[n] > m THEN seq[n] ELSE m

\* Relation.polymer(new_vars) with new_arity None: max(new_vars) + 1.
polymer_none(s, new_vars) ==
    IF s.err # "" THEN s
    ELSE IF Len(new_vars) # s.val.arity THEN Raise(s.ctx, "AssertionError")
    ELSE IF Len(new_vars) = 0 THEN Raise(s.ctx, "ValueError")
    ELSE polymer(s, new_vars, MaxOf(new_vars, Len(new_vars)) + 1)


\* FoldBlocks with slice(idx, idx + step - 1): the last cell of a block lost.
FoldBlocks_ShortSlice(kind, r, count) ==
    LET step == r.size ^ count
        length == Len(r.table.literals)
    IN  [b \in 1..((length + step - 1) \div step) |->
            [kind |-> kind,
             ins |-> slice(r.table, (b - 1) * step, b * step - 1).literals]]

\* The loop shared by fold_any / fold_all / fold_one / fold_amo:
\*   step = size ** count
\*   for idx in range(0, length, step):
\*       table.append(solver.fold_<kind>(table.slice(idx, idx + step).literals))
FoldBlocks(kind, r, count) ==
    LET step == r.size ^ count
        length == Len(r.table.literals)
    IN  [b \in 1..((length + step - 1) \div step) |->
            [kind |-> kind,
             ins |-> slice(r.table, (b - 1) * step, b * step).literals]]

Fold(kind, s, count) ==
    IF s.err # "" THEN s
    ELSE IF ~(0 <= count /\ count <= s.val.arity) THEN Raise(s.ctx, "AssertionError")
    ELSE LET sid == s.val.table.solver
             reqs == FoldBlocks(kind, s.val, count)
         IN  RelationInit(Batch(s.ctx, sid, reqs), s.val.size, s.val.arity - count,
                          BitVec(sid, BatchLits(SolverOf(s.ctx, sid), sid, reqs)))

fold_one_AsAmo(s, count) == Fold("amo", s, count)

fold_any(s, count) == Fold("any", s, count)
fold_all(s, count) == Fold("all", s, count)
fold_one(s, count) == Fold("one", s, count)
fold_amo(s, count) == Fold("amo", s, count)

\* Thread plumbing: a step applied to the value in hand.
Then(s, r) == IF s.err # "" THEN s ELSE r

\* Relation.__invert__
RelNot_Same(s) ==
    IF s.err # "" THEN s
    ELSE RelationInit(s.ctx, s.val.size, s.val.arity, s.val.table)

RelNot(s) ==
    IF s.err # "" THEN s
    ELSE LET b == BitVecNot(s.ctx, s.val.table)
         IN  RelationInit(b.ctx, s.val.size, s.val.arity, b.val)

\* Relation.__and__ / __or__ / __xor__ (kind "all" / "any" / "xor")
RelBin(kind, s, other) ==
    IF s.err # "" THEN s
    ELSE IF ~(s.val.size = other.size /\ s.val.arity = other.arity)
         THEN Raise(s.ctx, "AssertionError")
    ELSE LET b == BitVecBin(kind, s.ctx, s.val.table, other.table)
         IN  IF b.err # "" THEN b
             ELSE RelationInit(b.ctx, s.val.size, s.val.arity, b.val)

RelAnd(s, other) == RelBin("all", s, other)
RelOr(s, other) == RelBin("any", s, other)
RelXor(s, other) == RelBin("xor", s, other)

\* self <op> f(...) where the right operand is itself computed by a thread
\* that started from the context of s (Python evaluates it before the
\* operator is applied; it allocates nothing unless it raises).
RelAndT(s, t) ==
    IF s.err # "" THEN s ELSE IF t.err # "" THEN Raise(s.ctx, t.err)
    ELSE RelAnd([s EXCEPT !.ctx = t.ctx], t.val)

\* range(a, b) and range(a, b, step) as sequences
Range(a, b) == [i \in 1..(IF b > a THEN b - a ELSE 0) |-> a + i - 1]
RangeStep(a, b, step) ==
    [i \in 1..(IF b > a THEN (b - a + step - 1) \div step ELSE 0) |-> a + (i - 1) * step]

(***************************************************************************)
(* Operation and PartialOp (src/uasat/operation.py).  Both are records     *)
(* [size, arity, table] with a table of size ^ (arity + 1) literals.       *)
(***************************************************************************)
\* Operation.__init__ / PartialOp.__init__ on a BitVec.
OperationInit(c, size, arity, table) ==
    IF ~(size >= 1 /\ arity >= 0) THEN Raise(c, "AssertionError")
    ELSE IF Len(table.literals) # size ^ (arity + 1) THEN Raise(c, "AssertionError")
    ELSE Ok(c, Rel(size, arity, table))

PartialOpInit(c, size, arity, table) ==
    IF ~(size >= 1 /\ arity >= 0) THEN Raise(c, "AssertionError")
    ELSE IF Len(table.literals) # size ^ (arity + 1) THEN Raise(c, "AssertionError")
    ELSE Ok(c, Rel(size, arity, table))

\* for start in range(0, length, size): table.slice(start, start + size).ensure_<kind>()
EnsureBlocks(kind, c, table, size) ==
    LET length == Len(table.literals)
        starts == RangeStep(0, length, size)
    IN  [c EXCEPT ![table.solver].clauses = @ \o
            [b \in 1..Len(starts) |->
                [kind |-> kind,
                 lits |-> slice(table, starts[b], starts[b] + size).literals]]]

\* A constructor asserting at most one where exactly one is due.
OperationVariable_Amo(c, size, arity, sid) ==
    IF ~(size >= 1 /\ arity >= 0) THEN Raise(c, "AssertionError")
    ELSE LET v == new_variable(c, sid, size ^ (arity + 1))
         IN  Ok(EnsureBlocks("amo", v.ctx, v.val, size), Rel(size, arity, v.val))

\* Operation.__init__ on a Solver: fresh variables, exactly one per block.
OperationVariable(c, size, arity, sid) ==
    IF ~(size >= 1 /\ arity >= 0) THEN Raise(c, "AssertionError")
    ELSE LET v == new_variable(c, sid, size ^ (arity + 1))
         IN  Ok(EnsureBlocks("one", v.ctx, v.val, size), Rel(size, arity, v.val))

\* PartialOp.__init__ on a Solver: fresh variables, at most one per block.
PartialOpVariable(c, size, arity, sid) ==
    IF ~(size >= 1 /\ arity >= 0) THEN Raise(c, "AssertionError")
    ELSE LET v == new_variable(c, sid, size ^ (arity + 1))
         IN  Ok(EnsureBlocks("amo", v.ctx, v.val, size), Rel(size, arity, v.val))

\* A table with the values counted from the far end of each block.
ValueTable_Reversed(size, vals) ==
    [p \in 1..(size * Len(vals)) |->
        bool_lift(vals[((p - 1) \div size) + 1] = size - 1 - ((p - 1) % size))]

\* The table a host-level list of values encodes: table2[idx * size + val].
\* A PartialOp's None is a negative entry here.
ValueTable(size, vals) ==
    [p \in 1..(size * Len(vals)) |->
        bool_lift(vals[((p - 1) \div size) + 1] = (p - 1) % size)]

\* Operation.__init__ on a list of ints.
OperationList(c, size, arity, vals) ==
    IF ~(size >= 1 /\ arity >= 0) THEN Raise(c, "AssertionError")
    ELSE IF Len(vals) # (size ^ (arity + 1)) \div size THEN Raise(c, "AssertionError")
    ELSE IF \E i \in 1..Len(vals) : ~(0 <= vals[i] /\ vals[i] < size)
         THEN Raise(c, "AssertionError")
    ELSE Ok(c, Rel(size, arity, BitVec(CALC, ValueTable(size, vals))))

\* PartialOp.__init__ on a list of optional ints.
PartialOpList(c, size, arity, vals) ==
    IF ~(size >= 1 /\ arity >= 0) THEN Raise(c, "AssertionError")
    ELSE IF Len(vals) # (size ^ (arity + 1)) \div size THEN Raise(c, "AssertionError")
    ELSE IF \E i \in 1..Len(vals) : vals[i] >= size
         THEN Raise(c, "AssertionError")
    ELSE Ok(c, Rel(size, arity, BitVec(CALC, ValueTable(size, vals))))

\* Operation.as_relation / PartialOp.as_relation
as_relation(s) ==
    IF s.err # "" THEN s
    ELSE RelationInit(s.ctx, s.val.size, s.val.arity + 1, s.val.table)

\* Operation.as_partialop
as_partialop(s) ==
    IF s.err # "" THEN s
    ELSE PartialOpInit(s.ctx, s.val.size, s.val.arity, s.val.table)

\* polymer with the strides started at 1, as Relation.polymer starts them.
op_polymer_UnitStride(s, new_vars, new_arity) ==
    IF s.err # "" THEN s
    ELSE IF Len(new_vars) # s.val.arity THEN Raise(s.ctx, "AssertionError")
    ELSE IF \E i \in 1..Len(new_vars) : ~(0 <= new_vars[i] /\ new_vars[i] < new_arity)
         THEN Raise(s.ctx, "AssertionError")
    ELSE OperationInit(s.ctx, s.val.size, new_arity,
            BitVec(s.val.table.solver,
                   PolymerTable(s.val.table.literals, s.val.size,
                                new_vars, new_arity, 1, s.val.size)))

\* Operation.polymer / PartialOp.polymer with new_arity given: strides start
\* at size and whole output blocks are copied.
op_polymer(s, new_vars, new_arity) ==
    IF s.err # "" THEN s
    ELSE IF Len(new_vars) # s.val.arity THEN Raise(s.ctx, "AssertionError")
    ELSE IF \E i \in 1..Len(new_vars) : ~(0 <= new_vars[i] /\ new_vars[i] < new_arity)
         THEN Raise(s.ctx, "AssertionError")
    ELSE OperationInit(s.ctx, s.val.size, new_arity,
            BitVec(s.val.table.solver,
                   PolymerTable(s.val.table.literals, s.val.size,
                                new_vars, new_arity, s.val.size, s.val.size)))

\* Relation.decode: [self.table[i] == Solver.TRUE for i in range(self.length)]
rel_decode(s) ==
    IF s.err # "" THEN s
    ELSE IF s.val.table.solver # CALC THEN Raise(s.ctx, "AssertionError")
    ELSE Ok(s.ctx, [i \in 1..Len(s.val.table.literals) |->
                       s.val.table.literals[i] = SolverTRUE])

\* Operation.decode: for each block the first i with table[start + i] TRUE;
\* a block without one appends nothing.
RECURSIVE FirstTrue(_, _, _, _)
FirstTrue(lits, start, i, size) ==
    IF i >= size THEN -1
    ELSE IF lits[start + i + 1] = SolverTRUE THEN i
    ELSE FirstTrue(lits, start, i + 1, size)

RECURSIVE DecodeFrom(_, _, _)
DecodeFrom(r, start, keepNone) ==
    IF start >= Len(r.table.literals) THEN <<>>
    ELSE LET v == FirstTrue(r.table.literals, start, 0, r.size)
         IN  (IF v < 0 /\ ~keepNone THEN <<>> ELSE <<v>>)
                 \o DecodeFrom(r, start + r.size, keepNone)

op_decode(s) ==
    IF s.err # "" THEN s
    ELSE IF s.val.table.solver # CALC THEN Raise(s.ctx, "AssertionError")
    ELSE Ok(s.ctx, DecodeFrom(s.val, 0, FALSE))

\* PartialOp.decode: None (here -1) for a block without a true literal.
partialop_decode(s) ==
    IF s.err # "" THEN s
    ELSE IF s.val.table.solver # CALC THEN Raise(s.ctx, "AssertionError")
    ELSE Ok(s.ctx, DecodeFrom(s.val, 0, TRUE))

\* The loop of compose with the inputs of arg placed one coordinate too low,
\* range(arity, total - 1).
RECURSIVE ComposeArgs_ShiftedInputs(_, _, _, _, _)
ComposeArgs_ShiftedInputs(s, args, idx, arity, total) ==
    IF s.err # "" \/ idx >= Len(args) THEN s
    ELSE ComposeArgs_ShiftedInputs(
            RelAndT(s, polymer(as_relation(Ok(s.ctx, args[idx + 1])),
                               <<idx>> \o Range(arity, total - 1), total)),
            args, idx + 1, arity, total)

\* The loop of compose:
\*   for idx, arg in enumerate(args):
\*       rel &= arg.as_relation().polymer([idx] + list(range(arity + 1, total)), total)
RECURSIVE ComposeArgs(_, _, _, _, _)
ComposeArgs(s, args, idx, arity, total) ==
    IF s.err # "" \/ idx >= Len(args) THEN s
    ELSE ComposeArgs(
            RelAndT(s, polymer(as_relation(Ok(s.ctx, args[idx + 1])),
                               <<idx>> \o Range(arity + 1, total), total)),
            args, idx + 1, arity, total)

\* compose up to rel = rel.fold_any(self.arity)
ComposeRel(s, args) ==
    IF s.err # "" THEN s
    ELSE IF ~(s.val.arity = Len(args) /\ s.val.arity >= 1) THEN Raise(s.ctx, "AssertionError")
    ELSE LET arity == s.val.arity
             new_arity == args[1].arity
             total == arity + 1 + new_arity
             first == polymer(as_relation(s), <<arity>> \o Range(0, arity), total)
         IN  fold_any(ComposeArgs(first, args, 0, arity, total), arity)

\* compose without its assertion on the output.
EnsureFunctional_Skip(kind, s) == s

\* comp_eq answering as comp_ne does: the negated literal.
op_comp_eq_Ne(s, other) ==
    IF s.err # "" THEN s
    ELSE IF ~(s.val.size = other.size /\ s.val.arity = other.arity)
         THEN Raise(s.ctx, "AssertionError")
    ELSE LET e == BitVecCompEq(s.ctx, s.val.table, other.table)
         IN  IF e.err # "" THEN e ELSE BitVecNot(e.ctx, e.val)

\* Operation.comp_eq / PartialOp.comp_eq
op_comp_eq(s, other) ==
    IF s.err # "" THEN s
    ELSE IF ~(s.val.size = other.size /\ s.val.arity = other.arity)
         THEN Raise(s.ctx, "AssertionError")
    ELSE BitVecCompEq(s.ctx, s.val.table, other.table)

\* rel.fold_<kind>(1).table.ensure_all(), keeping rel in hand
EnsureFunctional(kind, s) ==
    IF s.err # "" THEN s
    ELSE LET f == Fold(kind, s, 1)
             e == IF f.err # "" THEN f ELSE Ensure("all", f.ctx, f.val.table)
         IN  IF e.err # "" THEN Raise(e.ctx, e.err) ELSE Ok(e.ctx, s.val)

\* Operation.compose(args)
compose(s, args) ==
    LET r == EnsureFunctional("one", ComposeRel(s, args))
    IN  IF r.err # "" THEN r
        ELSE OperationInit(r.ctx, r.val.size, args[1].arity, r.val.table)

\* PartialOp.compose(args)
partialop_compose(s, args) ==
    LET r == EnsureFunctional("amo", ComposeRel(s, args))
    IN  IF r.err # "" THEN r
        ELSE PartialOpInit(r.ctx, r.val.size, args[1].arity, r.val.table)

(***************************************************************************)
(* Relation: constructors of constants, the derived reindexings, and       *)
(* evaluate (src/uasat/relation.py).                                       *)
(***************************************************************************)
\* Relation.new_const(size, arity, solver, value)
new_const(c, size, arity, sid, value) ==
    IF ~(size >= 1 /\ arity >= 0) THEN Raise(c, "AssertionError")
    ELSE RelationInit(c, size, arity, BitVec(sid, [p \in 1..(size ^ arity) |-> value]))

new_full(c, size, arity) == new_const(c, size, arity, CALC, SolverTRUE)
new_empty(c, size, arity) == new_const(c, size, arity, CALC, SolverFALSE)

\* Relation.new_diag(size, arity): for size <= 1 the one-cell table [TRUE],
\* otherwise TRUE at every multiple of step = (size ** arity - 1) // (size - 1).
\* range(0, length, 0) raises ValueError (arity 0).
new_diag(c, size, arity) ==
    IF ~(size >= 1 /\ arity >= 0) THEN Raise(c, "AssertionError")
    ELSE IF size <= 1 THEN RelationInit(c, size, arity, BitVec(CALC, <<SolverTRUE>>))
    ELSE LET length == size ^ arity
             step == (size ^ arity - 1) \div (size - 1)
         IN  IF step = 0 THEN Raise(c, "ValueError")
             ELSE RelationInit(c, size, arity,
                      BitVec(CALC, [p \in 1..length |-> bool_lift((p - 1) % step = 0)]))

\* Relation.polymer_rotate(offset)
polymer_rotate(s, offset) ==
    IF s.err # "" THEN s
    ELSE IF s.val.arity = 0 THEN Raise(s.ctx, "ZeroDivisionError")
    ELSE IF offset % s.val.arity = 0 THEN s
    ELSE polymer(s, [i \in 1..s.val.arity |-> (i - 1 + offset) % s.val.arity],
                 s.val.arity)

\* Relation.polymer_insert(var)
polymer_insert(s, var) ==
    IF s.err # "" THEN s
    ELSE IF ~(0 <= var /\ var <= s.val.arity) THEN Raise(s.ctx, "AssertionError")
    ELSE polymer(s, [i \in 1..s.val.arity |-> IF i - 1 < var THEN i - 1 ELSE i],
                 s.val.arity + 1)

\* Relation.polymer_swap(var0, var1)
polymer_swap(s, var0, var1) ==
    IF s.err # "" THEN s
    ELSE IF ~(0 <= var0 /\ var0 < s.val.arity /\ 0 <= var1 /\ var1 < s.val.arity)
         THEN Raise(s.ctx, "AssertionError")
    ELSE IF var0 = var1 THEN s
    ELSE polymer(s, [i \in 1..s.val.arity |->
                        IF i - 1 = var0 THEN var1
                        ELSE IF i - 1 = var1 THEN var0 ELSE i - 1],
                 s.val.arity)

\* Relation.product(other)
product(s, other) ==
    IF s.err # "" THEN s
    ELSE IF other.size # s.val.size THEN Raise(s.ctx, "AssertionError")
    ELSE LET a == s.val.arity
             b == other.arity
         IN  RelAndT(polymer(s, Range(0, a), a + b),
                     polymer(Ok(s.ctx, other), Range(a, a + b), a + b))

\* The precondition evaluate and _evaluate_nm assert on their arguments.
EvaluateArgsOk(r, operations) ==
    /\ Len(operations) = r.arity
    /\ r.arity >= 1
    /\ operations[1].arity >= 1
    /\ \A i \in 1..Len(operations) :
           operations[i].arity = operations[1].arity /\ operations[i].size = r.size

RECURSIVE EvalN1Loop(_, _, _)
EvalN1Loop(s, opers_, i) ==
    IF s.err # "" \/ i > Len(opers_) THEN s
    ELSE EvalN1Loop(product(s, opers_[i]), opers_, i + 1)

\* Relation._evaluate_n1(opers)
evaluate_n1(s, opers_) ==
    IF s.err # "" THEN s
    ELSE IF ~(Len(opers_) = s.val.arity /\ s.val.arity >= 1) THEN Raise(s.ctx, "AssertionError")
    ELSE IF \E i \in 1..Len(opers_) : ~(opers_[i].arity = 1 /\ opers_[i].size = s.val.size)
         THEN Raise(s.ctx, "AssertionError")
    ELSE EvalN1Loop(Ok(s.ctx, opers_[1]), opers_, 2)

\* while oper.arity > 1: oper &= self.polymer([0], oper.arity); oper = oper.fold_any(1)
RECURSIVE Eval1mLoop(_, _)
Eval1mLoop(s, self) ==
    IF s.err # "" \/ s.val.arity <= 1 THEN s
    ELSE Eval1mLoop(
            fold_any(RelAndT(s, polymer(Ok(s.ctx, self), <<0>>, s.val.arity)), 1),
            self)

\* _evaluate_1m without oper.polymer_rotate(-1): the result coordinate is
\* folded away in place of an argument.
evaluate_1m_NoRotate(s, oper) ==
    IF s.err # "" THEN s
    ELSE IF ~(s.val.arity = 1 /\ oper.arity >= 1) THEN Raise(s.ctx, "AssertionError")
    ELSE Eval1mLoop(Ok(s.ctx, oper), s.val)

\* Relation._evaluate_1m(oper)
evaluate_1m(s, oper) ==
    IF s.err # "" THEN s
    ELSE IF ~(s.val.arity = 1 /\ oper.arity >= 1) THEN Raise(s.ctx, "AssertionError")
    ELSE Eval1mLoop(polymer_rotate(Ok(s.ctx, oper), -1), s.val)

\* for oper in opers: rel = rel.polymer_insert(0); rel &= oper.polymer([0, 1], rel.arity)
\*                    rel = rel.polymer_rotate(-1); rel = rel.fold_any(1)
RECURSIVE EvalN2Loop(_, _, _)
EvalN2Loop(s, opers_, i) ==
    IF s.err # "" \/ i > Len(opers_) THEN s
    ELSE LET ins == polymer_insert(s, 0)
             both == Then(ins, RelAndT(ins, polymer(Ok(ins.ctx, opers_[i]), <<0, 1>>,
                                                    ins.val.arity)))
         IN  EvalN2Loop(fold_any(polymer_rotate(both, -1), 1), opers_, i + 1)

\* _evaluate_n2 with the loop entered at the second table.
evaluate_n2_SkipFirst(s, opers_) ==
    IF s.err # "" THEN s
    ELSE IF ~(Len(opers_) = s.val.arity /\ s.val.arity >= 1) THEN Raise(s.ctx, "AssertionError")
    ELSE IF \E i \in 1..Len(opers_) : ~(opers_[i].arity = 2 /\ opers_[i].size = s.val.size)
         THEN Raise(s.ctx, "AssertionError")
    ELSE EvalN2Loop(s, opers_, 2)

\* Relation._evaluate_n2(opers)
evaluate_n2(s, opers_) ==
    IF s.err # "" THEN s
    ELSE IF ~(Len(opers_) = s.val.arity /\ s.val.arity >= 1) THEN Raise(s.ctx, "AssertionError")
    ELSE IF \E i \in 1..Len(opers_) : ~(opers_[i].arity = 2 /\ opers_[i].size = s.val.size)
         THEN Raise(s.ctx, "AssertionError")
    ELSE EvalN2Loop(s, opers_, 1)

\* for _ in range(oper0.arity - 1): test = test.polymer_insert(1); test &= rel
\*                                  test = test.fold_any(1); test = test.polymer_rotate(-1)
RECURSIVE Eval2mLoop(_, _, _)
Eval2mLoop(s, r, n) ==
    IF s.err # "" \/ n <= 0 THEN s
    ELSE Eval2mLoop(
            polymer_rotate(fold_any(RelAnd(polymer_insert(s, 1), r), 1), -1),
            r, n - 1)

\* _evaluate_2m with the two tables taken in each other's place.
evaluate_2m_Swapped(s, oper0, oper1) ==
    IF s.err # "" THEN s
    ELSE IF ~(s.val.arity = 2 /\ oper0.arity = oper1.arity) THEN Raise(s.ctx, "AssertionError")
    ELSE IF ~(oper0.size = s.val.size /\ oper1.size = s.val.size)
         THEN Raise(s.ctx, "AssertionError")
    ELSE LET r == polymer(s, <<0, 1>>, oper0.arity + 1)
             test0 == Then(r, polymer_rotate(Ok(r.ctx, oper1), -1))
             test1 == Then(test0, Eval2mLoop(test0, r.val, oper0.arity - 1))
             test2 == polymer_insert(test1, 1)
             test3 == Then(test2, RelAndT(test2, polymer_insert(Ok(test2.ctx, oper0), 0)))
         IN  fold_any(polymer_rotate(test3, -2), oper0.arity - 1)

\* Relation._evaluate_2m(oper0, oper1)
evaluate_2m(s, oper0, oper1) ==
    IF s.err # "" THEN s
    ELSE IF ~(s.val.arity = 2 /\ oper0.arity = oper1.arity) THEN Raise(s.ctx, "AssertionError")
    ELSE IF ~(oper0.size = s.val.size /\ oper1.size = s.val.size)
         THEN Raise(s.ctx, "AssertionError")
    ELSE LET r == polymer(s, <<0, 1>>, oper0.arity + 1)
             test0 == Then(r, polymer_rotate(Ok(r.ctx, oper0), -1))
             test1 == Then(test0, Eval2mLoop(test0, r.val, oper0.arity - 1))
             test2 == polymer_insert(test1, 1)
             test3 == Then(test2, RelAndT(test2, polymer_insert(Ok(test2.ctx, oper1), 0)))
         IN  fold_any(polymer_rotate(test3, -2), oper0.arity - 1)

\* for oper in opers: rel = rel.polymer_insert(0); rel &= oper.polymer([0, 1, 2], rel.arity)
\*                    rel = rel.polymer_rotate(-1); rel = rel.fold_any(2)
RECURSIVE EvalN3Loop(_, _, _)
EvalN3Loop(s, opers_, i) ==
    IF s.err # "" \/ i > Len(opers_) THEN s
    ELSE LET ins == polymer_insert(s, 0)
             both == Then(ins, RelAndT(ins, polymer(Ok(ins.ctx, opers_[i]), <<0, 1, 2>>,
                                                    ins.val.arity)))
         IN  EvalN3Loop(fold_any(polymer_rotate(both, -1), 2), opers_, i + 1)

\* _evaluate_n3 with one copy of self only (the even coordinates).
evaluate_n3_OneCopy(s, opers_) ==
    IF s.err # "" THEN s
    ELSE IF ~(Len(opers_) = s.val.arity /\ s.val.arity >= 1) THEN Raise(s.ctx, "AssertionError")
    ELSE IF \E i \in 1..Len(opers_) : ~(opers_[i].arity = 3 /\ opers_[i].size = s.val.size)
         THEN Raise(s.ctx, "AssertionError")
    ELSE LET k == s.val.arity
             even == polymer(s, RangeStep(0, 2 * k, 2), 2 * k)
         IN  EvalN3Loop(even, opers_, 1)

\* Relation._evaluate_n3(opers)
evaluate_n3(s, opers_) ==
    IF s.err # "" THEN s
    ELSE IF ~(Len(opers_) = s.val.arity /\ s.val.arity >= 1) THEN Raise(s.ctx, "AssertionError")
    ELSE IF \E i \in 1..Len(opers_) : ~(opers_[i].arity = 3 /\ opers_[i].size = s.val.size)
         THEN Raise(s.ctx, "AssertionError")
    ELSE LET k == s.val.arity
             even == polymer(s, RangeStep(0, 2 * k, 2), 2 * k)
             both == RelAndT(even, polymer(s, RangeStep(1, 2 * k, 2), 2 * k))
         IN  EvalN3Loop(both, opers_, 1)

\* for idx, oper in enumerate(opers):
\*     rel &= oper.polymer(range(idx, rel.arity, self.arity), rel.arity)
RECURSIVE EvalNmOpers(_, _, _, _)
EvalNmOpers(s, opers_, idx, k) ==
    IF s.err # "" \/ idx >= Len(opers_) THEN s
    ELSE EvalNmOpers(
            RelAndT(s, polymer(Ok(s.ctx, opers_[idx + 1]),
                               RangeStep(idx, s.val.arity, k), s.val.arity)),
            opers_, idx + 1, k)

\* for idx in range(self.arity, rel.arity, self.arity):
\*     rel &= self.polymer(range(idx, idx + self.arity), rel.arity)
RECURSIVE EvalNmCopies(_, _, _)
EvalNmCopies(s, self, idx) ==
    IF s.err # "" \/ idx >= s.val.arity THEN s
    ELSE EvalNmCopies(
            RelAndT(s, polymer(Ok(s.ctx, self), Range(idx, idx + self.arity), s.val.arity)),
            self, idx + self.arity)

\* Relation._evaluate_nm(opers): the generic algorithm
evaluate_nm(s, opers_) ==
    IF s.err # "" THEN s
    ELSE IF ~EvaluateArgsOk(s.val, opers_) THEN Raise(s.ctx, "AssertionError")
    ELSE LET k == s.val.arity
             m == opers_[1].arity
             full == new_full(s.ctx, s.val.size, k * m)
             graphs == EvalNmOpers(full, opers_, 0, k)
             copies == EvalNmCopies(graphs, s.val, k)
             r == fold_any(polymer_rotate(copies, -k), k * (m - 1))
         IN  IF r.err = "" /\ r.val.arity # k THEN Raise(r.ctx, "AssertionError") ELSE r

\* Relation.evaluate(operations): the dispatch
evaluate(s, operations) ==
    IF s.err # "" THEN s
    ELSE IF ~EvaluateArgsOk(s.val, operations) THEN Raise(s.ctx, "AssertionError")
    ELSE IF operations[1].arity = 1 THEN evaluate_n1(s, operations)
    ELSE IF s.val.arity = 1 THEN evaluate_1m(s, operations[1])
    ELSE IF operations[1].arity = 2 THEN evaluate_n2(s, operations)
    ELSE IF s.val.arity = 2 THEN evaluate_2m(s, operations[1], operations[2])
    ELSE IF operations[1].arity = 3 THEN evaluate_n3(s, operations)
    ELSE Raise(s.ctx, "NotImplementedError")

\* closure returning self | self.evaluate(...): the seed kept in the result.
closure_WithSeed(s, operation) ==
    IF s.err # "" THEN s
    ELSE LET oper == as_relation(Ok(s.ctx, operation))
         IN  IF oper.err # "" THEN oper
             ELSE RelOr(evaluate(s, [i \in 1..s.val.arity |-> oper.val]), s.val)

\* Relation.closure(operation)
closure(s, operation) ==
    IF s.err # "" THEN s
    ELSE LET oper == as_relation(Ok(s.ctx, operation))
         IN  IF oper.err # "" THEN oper
             ELSE evaluate(s, [i \in 1..s.val.arity |-> oper.val])

\* Relation.preserves(operation): a one-literal BitVec
preserves(s, operation) ==
    IF s.err # "" THEN s
    ELSE LET r == RelOr(RelNot(closure(s, operation)), s.val)
         IN  IF r.err # "" THEN r ELSE BitVecFold("all", r.ctx, r.val.table)

(***************************************************************************)
(* Inputs.  A host-level table is drawn by a seed: cell p is bit           *)
(* p mod PatternWidth of the seed, so that tables of up to PatternWidth    *)
(* cells are all drawn and longer ones are not constant along any          *)
(* coordinate.                                                             *)
(***************************************************************************)
Sizes == 1..MaxSize
Arities == 0..MaxArity
Seeds == 0..MaxSeed

PatternBools(seed, len) ==
    [p \in 1..len |-> (seed \div (2 ^ ((p - 1) % PatternWidth))) % 2 = 1]

InputRelation(n, a, seed) ==
    RelationBools(NoSolvers, n, a, PatternBools(seed, n ^ a)).val

NoOut == [val |-> NoValue, err |-> ""]
NoArg == [new_vars |-> <<>>, new_arity |-> 0, count |-> 0]

\* A call returns: the context and the result are what the thread s holds.
\* The calls of these specifications are made on the drawn inputs.
Returns(name, a, s) ==
    /\ call = "init"
    /\ call' = name
    /\ arg' = a
    /\ ctx' = s.ctx
    /\ out' = [val |-> s.val, err |-> s.err]
    /\ UNCHANGED <<rel, opers, found>>

Self == Ok(ctx, rel)

(***************************************************************************)
(* SpecPolymer: polymer on every drawn relation and every map.             *)
(***************************************************************************)
InitPolymer ==
    /\ ctx = NoSolvers
    /\ \E n \in Sizes, a \in Arities, seed \in Seeds : rel = InputRelation(n, a, seed)
    /\ opers = <<>>
    /\ arg = NoArg
    /\ call = "init"
    /\ out = NoOut
    /\ found = {}

CallPolymer ==
    \E na \in Arities :
        \E nv \in [1..rel.arity -> 0..(na - 1)] :
            Returns("polymer", [NoArg EXCEPT !.new_vars = nv, !.new_arity = na],
                    polymer(Self, nv, na))

NextPolymer == CallPolymer

SpecPolymer == InitPolymer /\ [][NextPolymer]_vars

\* The flat index of the cell of T that C1 names for cell k of the result:
\* coordinate i of T is coordinate new_vars[i] of the result.
SourceCell(k, n, nv) ==
    SumUpTo([i \in 1..Len(nv) |-> Digit(k, nv[i], n) * n ^ (i - 1)], Len(nv))

\* C1: polymer(new_vars, new_arity) returns a relation of arity new_arity
\* whose cell (x_0, ..., x_{new_arity-1}) is the cell of T at
\* (x_{new_vars[0]}, ..., x_{new_vars[a-1]}): untargeted coordinates are
\* broadcast over, repeated targets read the diagonal.
C1_PolymerCells ==
    call = "polymer" =>
        /\ out.err = ""
        /\ out.val.size = rel.size
        /\ out.val.arity = arg.new_arity
        /\ Len(out.val.table.literals) = rel.size ^ arg.new_arity
        /\ \A k \in 0..(rel.size ^ arg.new_arity - 1) :
               out.val.table.literals[k + 1] =
                   rel.table.literals[SourceCell(k, rel.size, arg.new_vars) + 1]

\* A diagonal read with a broadcast coordinate, on a table that is neither
\* full nor empty.
C1_Witness ==
    /\ call = "polymer"
    /\ out.err = ""
    /\ rel.size = 3
    /\ arg.new_vars = <<2, 2>>
    /\ arg.new_arity = 3
    /\ \E p, q \in DOMAIN out.val.table.literals :
           out.val.table.literals[p] # out.val.table.literals[q]

(***************************************************************************)
(* SpecFold: the four folds on every drawn relation and every count.       *)
(***************************************************************************)
InitFold == InitPolymer

CallFoldAny ==
    \E count \in Arities :
        Returns("fold_any", [NoArg EXCEPT !.count = count], fold_any(Self, count))

CallFoldAll ==
    \E count \in Arities :
        Returns("fold_all", [NoArg EXCEPT !.count = count], fold_all(Self, count))

CallFoldOne ==
    \E count \in Arities :
        Returns("fold_one", [NoArg EXCEPT !.count = count], fold_one(Self, count))

CallFoldAmo ==
    \E count \in Arities :
        Returns("fold_amo", [NoArg EXCEPT !.count = count], fold_amo(Self, count))

NextFold == CallFoldAny \/ CallFoldAll \/ CallFoldOne \/ CallFoldAmo

SpecFold == InitFold /\ [][NextFold]_vars

FoldCalls == {"fold_any", "fold_all", "fold_one", "fold_amo"}

\* Coordinate tuples of length c over the universe, and the flat index of
\* the tuple `lead` followed by the tuple `trail` (polymer's numbering:
\* coordinate i has weight n ^ i).
Tuples(n, c) == [1..c -> 0..(n - 1)]

Flat(coords, n) == SumUpTo([i \in 1..Len(coords) |-> coords[i] * n ^ (i - 1)], Len(coords))

\* The cells that are true among the n ^ count cells T(lead ..., y ...) or
\* T(y ..., trail ...).
TrueCells(r, lead, count, atEnd) ==
    {y \in Tuples(r.size, count) :
        r.table.literals[Flat(IF atEnd THEN lead \o y ELSE y \o lead, r.size) + 1]
            = SolverTRUE}

\* any / all / exactly one / at most one of `total` cells, m of them true.
Quantified(kind, m, total) ==
    CASE kind = "fold_any" -> m >= 1
      [] kind = "fold_all" -> m = total
      [] kind = "fold_one" -> m = 1
      [] kind = "fold_amo" -> m <= 1

FoldedCell(kind, r, x, count, atEnd) ==
    Quantified(kind, Cardinality(TrueCells(r, x, count, atEnd)), r.size ^ count)

FoldShape ==
    /\ out.err = ""
    /\ out.val.size = rel.size
    /\ out.val.arity = rel.arity - arg.count
    /\ Len(out.val.table.literals) = rel.size ^ (rel.arity - arg.count)

\* C2 as claimed: the cell at (x_0, ..., x_{a-count-1}) of the result is the
\* fold of the cells T(x_0, ..., x_{a-count-1}, y_0, ..., y_{count-1}): the
\* trailing count coordinates are collapsed.
C2_TrailingCollapsed ==
    (call \in FoldCalls /\ arg.count <= rel.arity) =>
        /\ FoldShape
        /\ \A x \in Tuples(rel.size, rel.arity - arg.count) :
               out.val.table.literals[Flat(x, rel.size) + 1] =
                   bool_lift(FoldedCell(call, rel, x, arg.count, TRUE))

\* C2 amended: the result has arity a - count and its cell at
\* (x_0, ..., x_{a-count-1}) is the fold of the cells
\* T(y_0, ..., y_{count-1}, x_0, ..., x_{a-count-1}): the leading count
\* coordinates (the fastest running ones of the flat index) are collapsed.
C2_LeadingCollapsed ==
    (call \in FoldCalls /\ arg.count <= rel.arity) =>
        /\ FoldShape
        /\ \A x \in Tuples(rel.size, rel.arity - arg.count) :
               out.val.table.literals[Flat(x, rel.size) + 1] =
                   bool_lift(FoldedCell(call, rel, x, arg.count, FALSE))

\* A fold of one coordinate of a ternary relation over three elements in
\* which the blocks do not all fold to the same value.
C2_Witness ==
    /\ call = "fold_one"
    /\ out.err = ""
    /\ rel.size = 3
    /\ rel.arity = 3
    /\ arg.count = 1
    /\ \E p, q \in DOMAIN out.val.table.literals :
           out.val.table.literals[p] # out.val.table.literals[q]

(***************************************************************************)
(* SpecEval: evaluate and the generic algorithm on a drawn k-ary relation  *)
(* and k drawn tables of common arity m.                                   *)
(***************************************************************************)
InputOpers(n, k, m, seed) == [j \in 1..k |-> InputRelation(n, m, seed + j - 1)]

InitEval ==
    /\ ctx = NoSolvers
    /\ \E n \in Sizes, k \in 1..MaxArity, m \in 1..MaxOperArity,
          seed \in Seeds, oseed \in 0..MaxOperSeed :
           /\ n ^ (k + m) <= MaxCells
           /\ rel = InputRelation(n, k, seed)
           /\ opers = InputOpers(n, k, m, oseed)
    /\ arg = NoArg
    /\ call = "init"
    /\ out = NoOut
    /\ found = {}

CallEvaluate == Returns("evaluate", NoArg, evaluate(Self, opers))

\* The generic algorithm works on a table of size ^ (k * m) cells.
CallEvaluateNm ==
    /\ rel.size ^ (rel.arity * opers[1].arity) <= MaxCells
    /\ Returns("_evaluate_nm", NoArg, evaluate_nm(Self, opers))

NextEval == CallEvaluate \/ CallEvaluateNm

SpecEval == InitEval /\ [][NextEval]_vars

Holds(r, x) == r.table.literals[Flat(x, r.size) + 1] = SolverTRUE

TuplesOf(r) == {x \in Tuples(r.size, r.arity) : Holds(r, x)}

\* y is the image of a choice rs of m - 1 tuples of R under the graphs G_j:
\* G_j(y_j, rs[1][j], ..., rs[m-1][j]) for every j.
ImageOf(y, rs, graphs) ==
    \A j \in 1..Len(graphs) :
        Holds(graphs[j], <<y[j]>> \o [i \in 1..Len(rs) |-> rs[i][j]])

InImage(r, graphs, y) ==
    \E rs \in [1..(graphs[1].arity - 1) -> TuplesOf(r)] : ImageOf(y, rs, graphs)

IsImage(res, r, graphs) ==
    /\ res.size = r.size
    /\ res.arity = r.arity
    /\ Len(res.table.literals) = r.size ^ r.arity
    /\ \A y \in Tuples(r.size, r.arity) :
           res.table.literals[Flat(y, r.size) + 1] = bool_lift(InImage(r, graphs, y))

\* Wherever evaluate or the generic algorithm returns, what it returns is
\* the image; and evaluate fails on no drawn input but those without a
\* specialized path.
EvaluateImageWhereReturned ==
    (call \in {"evaluate", "_evaluate_nm"} /\ out.err = "") => IsImage(out.val, rel, opers)

EvaluateFailsOnlyUnspecialized ==
    call = "evaluate" =>
        \/ out.err = ""
        \/ rel.arity >= 3 /\ opers[1].arity >= 4 /\ out.err = "NotImplementedError"

\* C3: evaluate(operations) returns the image of R: for a k-ary R and k
\* graphs of common arity m >= 1 the cell (y_0, ..., y_{k-1}) of the result
\* is true iff there are m - 1 tuples of R with G_j(y_j, r^1_j, ..., r^{m-1}_j)
\* for every j.
C3_EvaluateImage ==
    call = "evaluate" => out.err = "" /\ IsImage(out.val, rel, opers)

\* C4: for universe sizes up to 3 and arities k, m in 1..3 the dispatch
\* evaluate returns exactly the table of the generic _evaluate_nm.
C4_EvaluateIsGeneric ==
    (/\ call = "evaluate"
     /\ rel.size <= 3 /\ rel.arity <= 3 /\ opers[1].arity <= 3
     /\ rel.size ^ (rel.arity * opers[1].arity) <= MaxCells) =>
        /\ out.err = ""
        /\ evaluate_nm(Self, opers).err = ""
        /\ out.val = evaluate_nm(Self, opers).val

\* A ternary relation and three ternary tables over two elements (the
\* path _evaluate_n3), with an image that is neither empty nor full.
C4_Witness ==
    /\ call = "evaluate"
    /\ out.err = ""
    /\ rel.size = 2 /\ rel.arity = 3 /\ opers[1].arity = 3
    /\ \E p, q \in DOMAIN out.val.table.literals :
           out.val.table.literals[p] # out.val.table.literals[q]

\* C5: evaluate returns a result for every k >= 1 and m >= 1; where no
\* specialized path exists (k >= 3 and m >= 4) the result is that of the
\* generic _evaluate_nm.
C5_EvaluateFallsBack ==
    (call = "evaluate" /\ rel.arity >= 3 /\ opers[1].arity >= 4) =>
        /\ out.err = ""
        /\ out.val = evaluate_nm(Self, opers).val

(***************************************************************************)
(* SpecPreserves: closure and preserves on a drawn k-ary relation and a    *)
(* drawn constant operation f of arity n (opers = <<f>>).                  *)
(***************************************************************************)
\* Operation(size, arity, vals): the values are the base-size digits of the
\* seed, repeated with period PatternWidth.
InputOperation(n, a, seed) ==
    OperationList(NoSolvers, n, a,
        [i \in 1..(n ^ a) |-> (seed \div (n ^ ((i - 1) % PatternWidth))) % n]).val

InitPreserves ==
    /\ ctx = NoSolvers
    /\ \E n \in Sizes, k \in 1..MaxArity, a \in Arities,
          seed \in Seeds, fseed \in 0..MaxFuncSeed :
           /\ n ^ (k + a + 1) <= MaxCells
           /\ rel = InputRelation(n, k, seed)
           /\ opers = <<InputOperation(n, a, fseed)>>
    /\ arg = NoArg
    /\ call = "init"
    /\ out = NoOut
    /\ found = {}

CallClosure == Returns("closure", NoArg, closure(Self, opers[1]))

CallPreserves == Returns("preserves", NoArg, preserves(Self, opers[1]))

NextPreserves == CallClosure \/ CallPreserves

SpecPreserves == InitPreserves /\ [][NextPreserves]_vars

\* f(x) for a constant-backed functional operation: decode()[sum x_j * size^j]
ValueAt(f, x) == DecodeFrom(f, 0, FALSE)[Flat(x, f.size) + 1]

\* f applied coordinatewise to the tuples rs[1], ..., rs[n] of arity k.
Pointwise(f, rs, k) == [j \in 1..k |-> ValueAt(f, [i \in 1..Len(rs) |-> rs[i][j]])]

\* The tuples f yields from tuples of the set S.
ImageSet(f, S, k) == {Pointwise(f, rs, k) : rs \in [1..f.arity -> S]}

\* The least set that contains S and is closed under f.
RECURSIVE LeastClosed(_, _, _)
LeastClosed(f, S, k) ==
    IF ImageSet(f, S, k) \subseteq S THEN S
    ELSE LeastClosed(f, S \cup ImageSet(f, S, k), k)

\* evaluate has no path for a relation of arity >= 3 with tables of arity
\* >= 4, the graphs of operations of arity >= 3.
NoPath(r, f) == r.arity >= 3 /\ f.arity >= 3

\* Wherever preserves returns, it is the one proposition "f maps tuples of
\* R to tuples of R"; and it fails on no drawn input but those without a
\* path in evaluate.
PreservesWhereReturned ==
    call = "preserves" =>
        \/ /\ out.err = ""
           /\ out.val.literals =
                  <<bool_lift(ImageSet(opers[1], TuplesOf(rel), rel.arity)
                                  \subseteq TuplesOf(rel))>>
        \/ NoPath(rel, opers[1]) /\ out.err = "NotImplementedError"

\* C6: for every constant relation R of arity k >= 1 and every constant
\* operation f of arity n, R.preserves(f) is a single proposition, true iff
\* for all tuples r^1, ..., r^n of R the coordinatewise result is in R.
C6_PreservesIff ==
    call = "preserves" =>
        /\ out.err = ""
        /\ out.val.literals =
               <<bool_lift(ImageSet(opers[1], TuplesOf(rel), rel.arity)
                               \subseteq TuplesOf(rel))>>

InitCompose ==
    /\ ctx = NoSolvers
    /\ \E n \in Sizes, a \in 1..MaxArity, p \in 0..MaxInner, fseed \in 0..MaxFuncSeed :
         \E gseeds \in [1..a -> 0..MaxArgSeed] :
           /\ n ^ (a + 1 + p) <= MaxCells
           /\ rel = InputOperation(n, a, fseed)
           /\ opers = [i \in 1..a |-> InputOperation(n, p, gseeds[i])]
    /\ arg = NoArg
    /\ call = "init"
    /\ out = NoOut
    /\ found = {}

CallCompose == Returns("compose", NoArg, compose(Self, opers))

CallDecode == Returns("decode", NoArg, op_decode(Self))

NextCompose == CallCompose \/ CallDecode

SpecCompose == InitCompose /\ [][NextCompose]_vars

\* The input tuple x with decode index idx: idx = sum of x_j * size^j.
TupleAt(idx, n, p) == [j \in 1..p |-> Digit(idx, j - 1, n)]

\* f(g_0(x), ..., g_{n-1}(x))
ComposedAt(f, gs, x) == ValueAt(f, [i \in 1..Len(gs) |-> ValueAt(gs[i], x)])

\* C8: for constant-backed functional operations f of arity n >= 1 and
\* g_0, ..., g_{n-1} of the same size and common arity p, f.compose(args) is
\* an Operation of arity p whose decoded value at every input tuple x is
\* f(g_0(x), ..., g_{n-1}(x)), the decode index of x being sum x_j * size^j.
C8_ComposeValues ==
    call = "compose" =>
        /\ out.err = ""
        /\ out.val.size = rel.size
        /\ out.val.arity = opers[1].arity
        /\ out.val.table.solver = CALC
        /\ op_decode(Ok(ctx, out.val)).val =
               [i \in 1..(rel.size ^ opers[1].arity) |->
                   ComposedAt(rel, opers, TupleAt(i - 1, rel.size, opers[1].arity))]
        /\ out.val.table.literals =
               ValueTable(rel.size, op_decode(Ok(ctx, out.val)).val)

\* A composition of three binary operations on three elements which is none
\* of its arguments and not constant.
C8_Witness ==
    /\ call = "compose"
    /\ out.err = ""
    /\ rel.size = 3
    /\ rel.arity = 2
    /\ opers[1].arity = 2
    /\ \A i \in 1..2 : out.val.table # opers[i].table
    /\ out.val.table # rel.table
    /\ \E i, j \in 1..9 : op_decode(Ok(ctx, out.val)).val[i] # op_decode(Ok(ctx, out.val)).val[j]

(***************************************************************************)
(* SpecSat: a variable-backed Operation or PartialOp is constructed on the *)
(* solver "s1" (rel) and one combinator is applied to it.                  *)
(***************************************************************************)
InitSat ==
    /\ ctx = NoSolvers
    /\ rel = NoValue
    /\ opers = <<>>
    /\ arg = NoArg
    /\ call = "init"
    /\ out = NoOut
    /\ found = {}

Constructs(name, s) ==
    /\ call = "init"
    /\ call' = name
    /\ ctx' = s.ctx
    /\ rel' = s.val
    /\ out' = [val |-> s.val, err |-> s.err]
    /\ UNCHANGED <<opers, arg, found>>

\* Operation(size, arity, solver)
NewOperation ==
    \E n \in Sizes, a \in Arities :
        /\ n ^ (a + 1) <= MaxVars
        /\ Constructs("Operation", OperationVariable(ctx, n, a, "s1"))

\* PartialOp(size, arity, solver)
NewPartialOp ==
    \E n \in Sizes, a \in Arities :
        /\ n ^ (a + 1) <= MaxVars
        /\ Constructs("PartialOp", PartialOpVariable(ctx, n, a, "s1"))

Constructed == {"Operation", "PartialOp"}

Combines(name, a, s) ==
    /\ call \in Constructed
    /\ call' = name
    /\ arg' = a
    /\ ctx' = s.ctx
    /\ out' = [val |-> s.val, err |-> s.err]
    /\ UNCHANGED <<rel, opers, found>>

SatPolymer ==
    \E na \in Arities :
        \E nv \in [1..rel.arity -> 0..(na - 1)] :
            /\ rel.size ^ (na + 1) <= MaxCells
            /\ Combines("polymer", [NoArg EXCEPT !.new_vars = nv, !.new_arity = na],
                        op_polymer(Self, nv, na))

SatAsRelation == Combines("as_relation", NoArg, as_relation(Self))

SatAsPartialOp ==
    /\ call = "Operation"
    /\ Combines("as_partialop", NoArg, as_partialop(Self))

\* self.comp_eq(other) with a constant other of the same shape
SatCompEq ==
    \E seed \in 0..MaxArgSeed :
        Combines("comp_eq", [NoArg EXCEPT !.count = seed],
                 op_comp_eq(Self, InputOperation(rel.size, rel.arity, seed)))

\* self.compose([self] * arity)
SatCompose ==
    Combines("compose", NoArg,
             IF call = "Operation" THEN compose(Self, [i \in 1..rel.arity |-> rel])
             ELSE partialop_compose(Self, [i \in 1..rel.arity |-> rel]))

NextSat ==
    \/ NewOperation
    \/ NewPartialOp
    \/ SatPolymer
    \/ SatAsRelation
    \/ SatAsPartialOp
    \/ SatCompEq
    \/ SatCompose

SpecSat == InitSat /\ [][NextSat]_vars

\* The value of a literal under an assignment of the solver's variables.
RECURSIVE Val(_, _, _)
Val(st, asg, lit) ==
    IF lit < 0 THEN -Val(st, asg, -lit)
    ELSE IF lit = SolverTRUE THEN SolverTRUE
    ELSE LET d == st.defs[lit - 1]
         IN  IF d.kind = "var" THEN bool_lift(asg[lit - 1])
             ELSE CalcGate(d.kind, [i \in 1..Len(d.ins) |-> Val(st, asg, d.ins[i])])

VarIdx(st) == {k \in 1..Len(st.defs) : st.defs[k].kind = "var"}

Assignments(st) == [VarIdx(st) -> BOOLEAN]

ClauseHolds(st, asg, cl) ==
    CalcGate(cl.kind, [i \in 1..Len(cl.lits) |-> Val(st, asg, cl.lits[i])]) = SolverTRUE

\* The satisfying models of a solver.
Models(st) ==
    {asg \in Assignments(st) : \A i \in 1..Len(st.clauses) : ClauseHolds(st, asg, st.clauses[i])}

\* The number of true literals in block b, cells [b * size, (b + 1) * size).
TrueInBlock(st, asg, r, b) ==
    Cardinality({i \in 1..r.size :
                    Val(st, asg, r.table.literals[b * r.size + i]) = SolverTRUE})

Blocks(r) == 0..(r.size ^ r.arity - 1)

\* C9: for a freshly constructed variable-backed Operation every satisfying
\* model has exactly one true literal in each of the size^arity output
\* blocks; for a freshly constructed PartialOp at most one.
C9_FreshFunctional ==
    /\ call = "Operation" =>
           /\ Len(rel.table.literals) = rel.size ^ (rel.arity + 1)
           /\ \A asg \in Models(ctx["s1"]) :
                  \A b \in Blocks(rel) : TrueInBlock(ctx["s1"], asg, rel, b) = 1
    /\ call = "PartialOp" =>
           /\ Len(rel.table.literals) = rel.size ^ (rel.arity + 1)
           /\ \A asg \in Models(ctx["s1"]) :
                  \A b \in Blocks(rel) : TrueInBlock(ctx["s1"], asg, rel, b) <= 1

\* A fresh unary operation on three elements: its models are the 27 maps.
C9_Witness ==
    /\ call = "Operation"
    /\ rel.size = 3
    /\ rel.arity = 1
    /\ Cardinality(Models(ctx["s1"])) = 27

\* The exactly-one / at-most-one assertions in a solver: the ensure_one and
\* ensure_amo clauses, and the fold_one / fold_amo literals asserted by an
\* ensure_all.
IsFunctionalGate(st, lit) == lit > SolverTRUE /\ st.defs[lit - 1].kind \in {"one", "amo"}

FunctionalAsserts(st) ==
    SumUpTo([i \in 1..Len(st.clauses) |->
                IF st.clauses[i].kind \in {"one", "amo"} THEN 1
                ELSE Cardinality({j \in 1..Len(st.clauses[i].lits) :
                                     IsFunctionalGate(st, st.clauses[i].lits[j])})],
            Len(st.clauses))

\* C10 as claimed: the constraint is asserted once per block at construction
\* and no combinator applied afterwards emits a further exactly-one or
\* at-most-one assertion.
C10_AssertedOnce ==
    [][/\ call = "init" => FunctionalAsserts(ctx'["s1"]) = rel'.size ^ rel'.arity
       /\ call \in Constructed =>
              FunctionalAsserts(ctx'["s1"]) = FunctionalAsserts(ctx["s1"])]_vars

\* What the one clause compose adds says: each block of the composed table
\* holds exactly one (Operation) or at most one (PartialOp) true literal.
SaysFunctional(st, cl, r, partial) ==
    \A asg \in Assignments(st) :
        ClauseHolds(st, asg, cl) <=>
            \A b \in Blocks(r) :
                IF partial THEN TrueInBlock(st, asg, r, b) <= 1
                ELSE TrueInBlock(st, asg, r, b) = 1

\* C10 amended: the constructor asserts one constraint per block; polymer,
\* as_relation, as_partialop and comp_eq add no clause; a compose that
\* returns adds exactly one ensure_all clause, which asserts exactly one
\* (at most one for a PartialOp) true literal in every block of its result.
C10_OnlyComposeAsserts ==
    [][/\ call = "init" =>
              /\ Len(ctx'["s1"].clauses) = rel'.size ^ rel'.arity
              /\ FunctionalAsserts(ctx'["s1"]) = rel'.size ^ rel'.arity
       /\ call \in Constructed =>
              IF call' = "compose" /\ out'.err = ""
              THEN /\ Len(ctx'["s1"].clauses) = Len(ctx["s1"].clauses) + 1
                   /\ SubSeq(ctx'["s1"].clauses, 1, Len(ctx["s1"].clauses)) = ctx["s1"].clauses
                   /\ ctx'["s1"].clauses[Len(ctx'["s1"].clauses)].kind = "all"
                   /\ SaysFunctional(ctx'["s1"],
                                     ctx'["s1"].clauses[Len(ctx'["s1"].clauses)],
                                     out'.val, call = "PartialOp")
              ELSE ctx'["s1"].clauses = ctx["s1"].clauses]_vars

\* A compose of a variable-backed binary operation on two elements that left
\* a fifth clause, over the four exactly-one literals of its output blocks.
C10_Witness ==
    /\ call = "compose"
    /\ out.err = ""
    /\ rel.size = 2
    /\ rel.arity = 2
    /\ Len(ctx["s1"].clauses) = 5
    /\ FunctionalAsserts(ctx["s1"]) = 8

(***************************************************************************)
(* Domain.bool_iff (src/uasat/domain.py) and SmallAlg / ProductAlg         *)
(* (src/uasat/algebra.py).  An algebra is [size, length, signature,        *)
(* factors]; a SmallAlg has no factors.                                    *)
(***************************************************************************)
\* Python's "a or b" on contexts: the calculator is the falsy one.
PyOr(a, b) == IF a # CALC THEN a ELSE b

\* Domain.bool_iff(elem0, elem1, elem2)
bool_iff(c, length, elem0, elem1, elem2) ==
    IF ~(Len(elem0.literals) = 1 /\ Len(elem1.literals) = length
            /\ Len(elem2.literals) = length)
    THEN Raise(c, "AssertionError")
    ELSE LET solver == PyOr(elem0.solver, PyOr(elem1.solver, elem2.solver))
             test == elem0.literals[1]
             reqs == [i \in 1..length |->
                         [kind |-> "iff",
                          ins |-> <<test, elem1.literals[i], elem2.literals[i]>>]]
         IN  Ok(Batch(c, solver, reqs),
                BitVec(elem0.solver, BatchLits(SolverOf(c, solver), solver, reqs)))

\* SmallAlg.__init__
SmallAlg(size, signature) ==
    [size |-> size, length |-> size, signature |-> signature, factors |-> <<>>]

\* SmallAlg.apply: the Constants are built, then compose is called with two
\* arguments where Operation.compose takes one.
SmallAlgApply(c, alg, op, args) ==
    IF Len(args) # alg.signature[op] THEN Raise(c, "AssertionError")
    ELSE IF \E i \in 1..Len(args) : Len(args[i].literals) # alg.size
         THEN Raise(c, "AssertionError")
    ELSE Raise(c, "TypeError")

\* math.prod
RECURSIVE ProdUpTo(_, _)
ProdUpTo(f, n) == IF n = 0 THEN 1 ELSE f[n] * ProdUpTo(f, n - 1)

\* ProductAlg.__init__
ProductAlgOf(factors, signature) ==
    [size |-> ProdUpTo([i \in 1..Len(factors) |-> factors[i].size], Len(factors)),
     length |-> SumUpTo([i \in 1..Len(factors) |-> factors[i].length], Len(factors)),
     signature |-> signature, factors |-> factors]

\* The loop of ProductAlg.apply from factor idx on: s.val is the BitVec
\* gathered so far, start the offset of the factor.
RECURSIVE ProductApplyLoop(_, _, _, _, _, _)
ProductApplyLoop(s, alg, op, args, idx, start) ==
    IF s.err # "" THEN s
    ELSE IF idx > Len(alg.factors)
         THEN IF start # alg.length THEN Raise(s.ctx, "AssertionError") ELSE s
    ELSE LET f == alg.factors[idx]
             subargs == [i \in 1..Len(args) |-> slice(args[i], start, start + f.length)]
             part == SmallAlgApply(s.ctx, f, op, subargs)
         IN  IF part.err # "" THEN part
             ELSE IF Join(s.val.solver, part.val.solver) = ""
                  THEN Raise(part.ctx, "ValueError")
             ELSE ProductApplyLoop(
                      Ok(part.ctx, BitVec(Join(s.val.solver, part.val.solver),
                                          s.val.literals \o part.val.literals)),
                      alg, op, args, idx + 1, start + f.length)

\* ProductAlg.apply(op, args)
ProductAlgApply(c, alg, op, args) ==
    ProductApplyLoop(Ok(c, BitVec(CALC, <<>>)), alg, op, args, 1, 0)

\* The loop of ProductAlg.combine: solver |= part.solver; literals += ...
RECURSIVE CombineLoop(_, _, _)
CombineLoop(s, parts, idx) ==
    IF s.err # "" \/ idx > Len(parts) THEN s
    ELSE IF Join(s.val.solver, parts[idx].solver) = "" THEN Raise(s.ctx, "ValueError")
    ELSE CombineLoop(Ok(s.ctx, BitVec(Join(s.val.solver, parts[idx].solver),
                                      s.val.literals \o parts[idx].literals)),
                     parts, idx + 1)

\* ProductAlg.combine(parts)
combine(c, alg, parts) ==
    IF Len(parts) # Len(alg.factors) THEN Raise(c, "AssertionError")
    ELSE LET r == CombineLoop(Ok(c, BitVec(CALC, <<>>)), parts, 1)
         IN  IF r.err # "" THEN r
             ELSE IF Len(r.val.literals) # alg.length THEN Raise(c, "AssertionError")
             ELSE r

\* The loop of ProductAlg.splitup from factor idx on.
RECURSIVE SplitupLoop(_, _, _, _)
SplitupLoop(alg, elem, idx, start) ==
    IF idx > Len(alg.factors) THEN <<>>
    ELSE <<slice(elem, start, start + alg.factors[idx].length)>>
             \o SplitupLoop(alg, elem, idx + 1, start + alg.factors[idx].length)

\* ProductAlg.splitup(elem)
splitup(c, alg, elem) ==
    IF Len(elem.literals) # alg.length THEN Raise(c, "AssertionError")
    ELSE Ok(c, SplitupLoop(alg, elem, 1, 0))

\* solver | other
SolverJoin(c, a, b) ==
    IF Join(a, b) = "" THEN Raise(c, "ValueError") ELSE Ok(c, BitVec(Join(a, b), <<>>))

(***************************************************************************)
(* SpecJoin: three BitVecs (opers), each on the calculator or on one of    *)
(* two live solvers with MaxLen variables each, are handed to the context  *)
(* join, ProductAlg.combine, ProductAlg.apply and Domain.bool_iff.         *)
(***************************************************************************)
Contexts == SolverIds \cup {CALC}

\* A BitVec of the given length: constants drawn by the seed on the
\* calculator, the first variables of the solver on a live one.
InputBitVec(sid, len, seed) ==
    IF sid = CALC
    THEN BitVec(CALC, [i \in 1..len |-> bool_lift(PatternBools(seed, len)[i])])
    ELSE BitVec(sid, [i \in 1..len |-> i + 1])

InitJoin ==
    /\ ctx = new_variable(new_variable(NoSolvers, "s1", MaxLen).ctx, "s2", MaxLen).ctx
    /\ rel = NoValue
    /\ \E len \in 1..MaxLen, seed \in 0..MaxArgSeed, sids \in [1..3 -> Contexts] :
           opers = <<InputBitVec(sids[1], 1, seed),
                     InputBitVec(sids[2], len, seed),
                     InputBitVec(sids[3], len, seed \div 2)>>
    /\ arg = NoArg
    /\ call = "init"
    /\ out = NoOut
    /\ found = {}

CallSolverJoin ==
    Returns("join", NoArg, SolverJoin(ctx, opers[2].solver, opers[3].solver))

\* ProductAlg([SmallAlg, SmallAlg]).combine([elem1, elem2])
CallCombine ==
    Returns("combine", NoArg,
            combine(ctx, ProductAlgOf(<<SmallAlg(Len(opers[2].literals), <<2>>),
                                        SmallAlg(Len(opers[3].literals), <<2>>)>>, <<2>>),
                    <<opers[2], opers[3]>>))

\* ProductAlg([SmallAlg]).apply(0, [elem1, elem2]) with a binary operation
CallProductApply ==
    Returns("apply", NoArg,
            ProductAlgApply(ctx, ProductAlgOf(<<SmallAlg(Len(opers[2].literals), <<2>>)>>, <<2>>),
                            1, <<opers[2], opers[3]>>))

\* Domain(length, size).bool_iff(elem0, elem1, elem2)
CallBoolIff ==
    Returns("bool_iff", NoArg,
            bool_iff(ctx, Len(opers[2].literals), opers[1], opers[2], opers[3]))

NextJoin == CallSolverJoin \/ CallCombine \/ CallProductApply \/ CallBoolIff

SpecJoin == InitJoin /\ [][NextJoin]_vars

\* The operands of a call and the live contexts among them.
OperandsOf(c) == IF c = "bool_iff" THEN {1, 2, 3} ELSE {2, 3}

LiveOf(c) == {opers[i].solver : i \in OperandsOf(c)} \ {CALC}

\* The union of the operands' contexts when at most one of them is live.
UnionOf(c) == IF LiveOf(c) = {} THEN CALC ELSE CHOOSE s \in LiveOf(c) : TRUE

FailsFastOrJoins(c) ==
    IF Cardinality(LiveOf(c)) >= 2 THEN out.err # ""
    ELSE out.err = "" /\ out.val.solver = UnionOf(c)

\* The context join and ProductAlg.combine raise ValueError on two live
\* contexts and are bound to the union otherwise.
JoinAndCombineFailFast ==
    call \in {"join", "combine"} =>
        /\ FailsFastOrJoins(call)
        /\ Cardinality(LiveOf(call)) >= 2 => out.err = "ValueError"

\* C11: every combinator given BitVecs of two different live contexts
\* raises, and its result is otherwise bound to the union of the operands'
\* contexts with CALC neutral: the context join, ProductAlg.combine,
\* ProductAlg.apply and Domain.bool_iff.
C11_ContextJoin ==
    call \in {"join", "combine", "apply", "bool_iff"} => FailsFastOrJoins(call)

\* Domain.bool_iff alone.
BoolIffFailsFastOrJoins == call = "bool_iff" => FailsFastOrJoins(call)

\* ProductAlg.apply alone.
ProductApplyFailsFastOrJoins == call = "apply" => FailsFastOrJoins(call)

(***************************************************************************)
(* SpecShape: a variable-backed operation f (rel) and argument operations  *)
(* of drawn arities (opers) live on the solver "s1"; one call is made on   *)
(* them, with matching or mismatching shapes.                              *)
(***************************************************************************)
\* [Operation(size, arity, solver) for arity in arities]
RECURSIVE OperationVariables(_, _, _, _)
OperationVariables(s, size, arities, idx) ==
    IF idx > Len(arities) THEN s
    ELSE LET o == OperationVariable(s.ctx, size, arities[idx], "s1")
         IN  OperationVariables(Ok(o.ctx, Append(s.val, o.val)), size, arities, idx + 1)

InitShape ==
    /\ \E n \in 1..MaxLen, a \in 1..MaxLen :
         \E ars \in [1..a -> 0..MaxInner] :
           LET f == OperationVariable(NoSolvers, n, a, "s1")
               gs == OperationVariables(Ok(f.ctx, <<>>), n, ars, 1)
           IN  /\ ctx = gs.ctx
               /\ rel = f.val
               /\ opers = gs.val
    /\ arg = NoArg
    /\ call = "init"
    /\ out = NoOut
    /\ found = {}

\* f.compose(args)
ShapeCompose == Returns("compose", NoArg, compose(Self, opers))

\* the same tables as PartialOps
ShapePartialCompose == Returns("partialop_compose", NoArg, partialop_compose(Self, opers))

\* f.as_relation() & args[0].as_relation()
ShapeAnd ==
    Returns("and", NoArg, RelAndT(as_relation(Self), as_relation(Ok(ctx, opers[1]))))

\* f.comp_eq(args[0])
ShapeCompEq == Returns("comp_eq", NoArg, op_comp_eq(Self, opers[1]))

\* f.as_relation().fold_any(count) / fold_one(count)
ShapeFold ==
    \E count \in 0..(MaxArity + 1) :
        \/ Returns("fold_any", [NoArg EXCEPT !.count = count],
                   fold_any(as_relation(Self), count))
        \/ Returns("fold_one", [NoArg EXCEPT !.count = count],
                   fold_one(as_relation(Self), count))

\* f.as_relation().polymer(new_vars, new_arity)
ShapePolymer ==
    \E na \in 1..MaxArity :
        \E nv \in [1..(rel.arity + 1) -> 0..MaxInner] :
            Returns("polymer", [NoArg EXCEPT !.new_vars = nv, !.new_arity = na],
                    polymer(as_relation(Self), nv, na))

\* f.as_relation().product(other) with a constant unary other of size m
ShapeProduct ==
    \E m \in 1..MaxLen :
        Returns("product", [NoArg EXCEPT !.count = m],
                product(as_relation(Self), InputRelation(m, 1, 1)))

\* args[0].as_relation().evaluate([arg.as_relation() for arg in args])
ShapeEvaluate ==
    Returns("evaluate", NoArg,
            evaluate(as_relation(Ok(ctx, opers[1])),
                     [i \in 1..Len(opers) |-> as_relation(Ok(ctx, opers[i])).val]))

NextShape ==
    \/ ShapeCompose
    \/ ShapePartialCompose
    \/ ShapeAnd
    \/ ShapeCompEq
    \/ ShapeFold
    \/ ShapePolymer
    \/ ShapeProduct
    \/ ShapeEvaluate

SpecShape == InitShape /\ [][NextShape]_vars

ComposeCalls == {"compose", "partialop_compose"}

\* The boolean operators, comparisons, polymer, the folds, product and
\* evaluate check shapes before they touch the context.
ShapeErrorsFirstOutsideCompose ==
    [][(call' \notin ComposeCalls /\ out'.err = "AssertionError") => ctx' = ctx]_vars

\* C12: every shape error of a constructor or combinator is raised before
\* the call has combined any literal or emitted any clause in the SAT
\* context; in particular compose called with argument operations of
\* differing arity fails without having added anything to the context.
C12_ShapeErrorsFirst ==
    [][out'.err = "AssertionError" => ctx' = ctx]_vars

(***************************************************************************)
(* SpecDecode: decode on an Operation / PartialOp wrapping a drawn         *)
(* constant table (Operation(size, arity, BitVec)), functional or not.     *)
(***************************************************************************)
InitDecode ==
    /\ ctx = NoSolvers
    /\ \E n \in Sizes, a \in 0..MaxInner, seed \in Seeds :
           rel = OperationInit(NoSolvers, n, a, InputRelation(n, a + 1, seed).table).val
    /\ opers = <<>>
    /\ arg = NoArg
    /\ call = "init"
    /\ out = NoOut
    /\ found = {}

CallOperationDecode == Returns("decode", NoArg, op_decode(Self))

CallPartialOpDecode == Returns("partialop_decode", NoArg, partialop_decode(Self))

NextDecode == CallOperationDecode \/ CallPartialOpDecode

SpecDecode == InitDecode /\ [][NextDecode]_vars

\* The number of true literals in block b of a constant table.
TrueCount(r, b) ==
    Cardinality({i \in 1..r.size : r.table.literals[b * r.size + i] = SolverTRUE})

\* A block the functionality constraint rules out.
Malformed(r, partial) ==
    \E b \in Blocks(r) : TrueCount(r, b) > 1 \/ (~partial /\ TrueCount(r, b) = 0)

\* What decode does: it never raises on a constant table; each block yields
\* the index of its first true literal, and a block without one yields
\* nothing (Operation) or None, here -1 (PartialOp).
DecodeTakesFirstTrue ==
    call \in {"decode", "partialop_decode"} =>
        /\ out.err = ""
        /\ \A i \in 1..Len(out.val) :
               out.val[i] >= 0 =>
                   \E b \in Blocks(rel) :
                       /\ rel.table.literals[b * rel.size + out.val[i] + 1] = SolverTRUE
                       /\ \A j \in 1..out.val[i] :
                              rel.table.literals[b * rel.size + j] # SolverTRUE
        /\ call = "partialop_decode" => Len(out.val) = rel.size ^ rel.arity
        /\ call = "decode" =>
               Len(out.val) = Cardinality({b \in Blocks(rel) : TrueCount(rel, b) >= 1})

\* C13: when some output block of the constant table has more than one
\* true literal (or, for Operation, no true literal), decode raises instead
\* of returning a list of values.
C13_DecodeRaises ==
    /\ (call = "decode" /\ Malformed(rel, FALSE)) => out.err # ""
    /\ (call = "partialop_decode" /\ Malformed(rel, TRUE)) => out.err # ""

(***************************************************************************)
(* Relation: new_singleton, the properties of binary relations, solution;  *)
(* Operation: new_proj, new_const, solution.                               *)
(***************************************************************************)
\* Relation.new_singleton(size, coord): pos = sum coord[i] * size^i; a
\* negative pos indexes from the end, one outside the table is an error.
new_singleton(c, size, coord) ==
    IF ~(size >= 1) THEN Raise(c, "AssertionError")
    ELSE LET length == size ^ Len(coord)
             pos == Flat(coord, size)
         IN  IF pos >= length \/ pos < -length THEN Raise(c, "IndexError")
             ELSE RelationInit(c, size, Len(coord),
                      BitVec(CALC, [p \in 1..length |->
                          bool_lift(p - 1 = (IF pos < 0 THEN pos + length ELSE pos))]))

\* u.fold_all() of a table, as a thread step
TableFoldAll(s) == IF s.err # "" THEN s ELSE BitVecFold("all", s.ctx, s.val.table)

\* Relation.reflexive()
reflexive(s) ==
    IF s.err # "" THEN s
    ELSE TableFoldAll(polymer_none(s, [i \in 1..s.val.arity |-> 0]))

\* Relation.symmetric()
symmetric(s) ==
    IF s.err # "" THEN s
    ELSE IF s.val.arity # 2 THEN Raise(s.ctx, "AssertionError")
    ELSE LET p == polymer_none(s, <<1, 0>>)
         IN  TableFoldAll(IF p.err # "" THEN p ELSE RelOr(RelNot(Ok(p.ctx, s.val)), p.val))

\* antisymm without the diagonal: no pair both ways, loops included.
antisymm_NoDiag(s) ==
    IF s.err # "" THEN s
    ELSE IF s.val.arity # 2 THEN Raise(s.ctx, "AssertionError")
    ELSE TableFoldAll(RelNot(RelAndT(s, polymer_none(s, <<1, 0>>))))

\* Relation.antisymm()
antisymm(s) ==
    IF s.err # "" THEN s
    ELSE IF s.val.arity # 2 THEN Raise(s.ctx, "AssertionError")
    ELSE LET r == RelAndT(s, polymer_none(s, <<1, 0>>))
             d == IF r.err # "" THEN r ELSE new_diag(r.ctx, s.val.size, 2)
         IN  TableFoldAll(IF d.err # "" THEN d ELSE RelOr(RelNot(Ok(d.ctx, r.val)), d.val))

\* Relation.compose(other): both factors are polymers of self.
rel_compose(s, other) ==
    IF s.err # "" THEN s
    ELSE IF ~(s.val.arity = 2 /\ other.arity = 2) THEN Raise(s.ctx, "AssertionError")
    ELSE fold_any(RelAndT(polymer(s, <<1, 0>>, 3), polymer(s, <<0, 2>>, 3)), 1)

\* Relation.transitive()
transitive(s) ==
    IF s.err # "" THEN s
    ELSE IF s.val.arity # 2 THEN Raise(s.ctx, "AssertionError")
    ELSE LET c == rel_compose(s, s.val)
         IN  TableFoldAll(IF c.err # "" THEN c ELSE RelOr(RelNot(c), s.val))

\* BitVec.get_value(): the constants a table takes in the model asg of its
\* solver (a constant table is its own value).
get_value(c, asg, u) ==
    BitVec(CALC, [i \in 1..Len(u.literals) |-> Val(SolverOf(c, u.solver), asg, u.literals[i])])

\* Relation.solution()
solution(s, asg) ==
    IF s.err # "" THEN s
    ELSE RelationInit(s.ctx, s.val.size, s.val.arity, get_value(s.ctx, asg, s.val.table))

\* Operation.solution()
op_solution(s, asg) ==
    IF s.err # "" THEN s
    ELSE OperationInit(s.ctx, s.val.size, s.val.arity, get_value(s.ctx, asg, s.val.table))

\* Operation.new_proj(size, arity, coord)
new_proj(c, size, arity, coord) ==
    IF ~(1 <= size /\ 0 <= coord /\ coord < arity) THEN Raise(c, "AssertionError")
    ELSE LET table == polymer(new_diag(c, size, 2), <<0, coord + 1>>, arity + 1)
         IN  IF table.err # "" THEN table
             ELSE OperationInit(c, size, arity, table.val.table)

\* Operation.new_const(size, index)
op_new_const(c, size, index) ==
    IF ~(0 <= index /\ index < size) THEN Raise(c, "AssertionError")
    ELSE OperationInit(c, size, 0, BitVec(CALC, [p \in 1..size |-> bool_lift(p - 1 = index)]))

(***************************************************************************)
(* SpecReach: any sequence of constructors and combinators on constants.   *)
(* rel is the Relation in hand and opers = <<op>> the Operation or         *)
(* PartialOp in hand; a call that returns replaces the value in hand, a    *)
(* call that raises leaves it.  Arities stay within MaxInner.              *)
(***************************************************************************)
InitReach ==
    /\ ctx = NoSolvers
    /\ \E n \in 1..MaxLen :
           /\ rel = new_full(NoSolvers, n, 0).val
           /\ opers = <<op_new_const(NoSolvers, n, 0).val>>
    /\ arg = NoArg
    /\ call = "init"
    /\ out = NoOut
    /\ found = {}

Reaches(name, s) ==
    /\ s.err = "" => s.val.arity <= MaxInner
    /\ call' = name
    /\ out' = [val |-> s.val, err |-> s.err]
    /\ rel' = IF s.err = "" THEN s.val ELSE rel
    /\ UNCHANGED <<ctx, opers, arg, found>>

ReachesOp(name, s) ==
    /\ s.err = "" => s.val.arity < MaxInner
    /\ call' = name
    /\ out' = [val |-> s.val, err |-> s.err]
    /\ opers' = IF s.err = "" THEN <<s.val>> ELSE opers
    /\ UNCHANGED <<ctx, rel, arg, found>>

Op == opers[1]

ReachConstructor ==
    \E a \in 0..MaxInner :
        \/ Reaches("new_diag", new_diag(ctx, rel.size, a))
        \/ Reaches("new_full", new_full(ctx, rel.size, a))
        \/ Reaches("new_empty", new_empty(ctx, rel.size, a))
        \/ \E coord \in Tuples(rel.size, a) :
               Reaches("new_singleton", new_singleton(ctx, rel.size, coord))
        \/ \E len \in 0..(MaxLen * MaxLen), seed \in 0..MaxArgSeed :
               Reaches("Relation", RelationBools(ctx, rel.size, a, PatternBools(seed, len)))

ReachPolymer ==
    \/ \E na \in 0..MaxInner : \E nv \in [1..rel.arity -> 0..MaxInner] :
           Reaches("polymer", polymer(Self, nv, na))
    \/ \E v \in 0..MaxInner :
           \/ Reaches("polymer_swap", polymer_swap(Self, 0, v))
           \/ Reaches("polymer_rotate", polymer_rotate(Self, v))
           \/ Reaches("polymer_insert", polymer_insert(Self, v))

ReachFold ==
    \E count \in 0..MaxInner :
        \/ Reaches("fold_any", fold_any(Self, count))
        \/ Reaches("fold_all", fold_all(Self, count))
        \/ Reaches("fold_one", fold_one(Self, count))
        \/ Reaches("fold_amo", fold_amo(Self, count))

ReachBoolean ==
    \/ Reaches("not", RelNot(Self))
    \/ \E a \in 0..MaxInner, seed \in 0..MaxArgSeed :
           \/ Reaches("and", RelAnd(Self, InputRelation(rel.size, a, seed)))
           \/ Reaches("or", RelOr(Self, InputRelation(rel.size, a, seed)))
           \/ Reaches("xor", RelXor(Self, InputRelation(rel.size, a, seed)))

ReachDerived ==
    \/ Reaches("compose", rel_compose(Self, rel))
    \/ Reaches("product", product(Self, rel))
    \/ Reaches("evaluate", evaluate(Self, [i \in 1..rel.arity |-> as_relation(Ok(ctx, Op)).val]))
    \/ Reaches("closure", closure(Self, Op))
    \/ Reaches("solution", solution(Self, <<>>))
    \/ Reaches("as_relation", as_relation(Ok(ctx, Op)))

ReachOperation ==
    \/ \E a \in 0..MaxInner, len \in 0..MaxLen, v \in [1..MaxLen -> -1..MaxLen] :
           \/ ReachesOp("Operation", OperationList(ctx, rel.size, a, SubSeq(v, 1, len)))
           \/ ReachesOp("PartialOp", PartialOpList(ctx, rel.size, a, SubSeq(v, 1, len)))
    \/ \E a \in 0..MaxInner, i \in 0..MaxInner :
           \/ ReachesOp("new_proj", new_proj(ctx, rel.size, a, i))
           \/ ReachesOp("new_const", op_new_const(ctx, rel.size, i))
    \/ \E na \in 0..MaxInner : \E nv \in [1..Op.arity -> 0..MaxInner] :
           ReachesOp("op_polymer", op_polymer(Ok(ctx, Op), nv, na))
    \/ ReachesOp("op_compose", compose(Ok(ctx, Op), [i \in 1..Op.arity |-> Op]))
    \/ ReachesOp("partialop_compose", partialop_compose(Ok(ctx, Op), [i \in 1..Op.arity |-> Op]))
    \/ ReachesOp("op_solution", op_solution(Ok(ctx, Op), <<>>))

NextReach ==
    \/ ReachConstructor
    \/ ReachPolymer
    \/ ReachFold
    \/ ReachBoolean
    \/ ReachDerived
    \/ ReachOperation

SpecReach == InitReach /\ [][NextReach]_vars

\* C14: every Relation value reachable by any sequence of constructors and
\* combinators has len(table) = size^arity, and every Operation / PartialOp
\* value reachable has len(table) = size^(arity + 1).
C14_TableLengths ==
    /\ rel.size >= 1 /\ rel.arity >= 0
    /\ Len(rel.table.literals) = rel.size ^ rel.arity
    /\ Op.size >= 1 /\ Op.arity >= 0
    /\ Len(Op.table.literals) = Op.size ^ (Op.arity + 1)

\* A binary relation on two elements reached by evaluate, with a unary
\* operation in hand that is not the one of the start.
C14_Witness ==
    /\ call = "evaluate"
    /\ out.err = ""
    /\ rel.size = 2
    /\ rel.arity = 2
    /\ Op.arity = 1
    /\ Len(rel.table.literals) = 4
    /\ \E i, j \in 1..4 : rel.table.literals[i] # rel.table.literals[j]

(***************************************************************************)
(* SpecRoundTrip: a drawn relation is reindexed by a permutation pi of its *)
(* coordinates (arg.new_vars) and the result by the inverse permutation,   *)
(* with new_arity left to its default or given.                            *)
(***************************************************************************)
Perms(a) == {p \in [1..a -> 0..(a - 1)] : \A i, j \in 1..a : p[i] = p[j] => i = j}

InversePerm(p) == [i \in 1..Len(p) |-> (CHOOSE j \in 1..Len(p) : p[j] = i - 1) - 1]

InitRoundTrip ==
    /\ ctx = NoSolvers
    /\ \E n \in Sizes, a \in Arities, seed \in Seeds :
         \E p \in Perms(a) :
           /\ rel = InputRelation(n, a, seed)
           /\ arg = [NoArg EXCEPT !.new_vars = p, !.new_arity = a]
    /\ opers = <<>>
    /\ call = "init"
    /\ out = NoOut
    /\ found = {}

\* R.polymer(pi)
CallPermute == Returns("polymer", arg, polymer_none(Self, arg.new_vars))

\* R.polymer(pi, a)
CallPermuteTo == Returns("polymer_to", arg, polymer(Self, arg.new_vars, arg.new_arity))

\* the second call of R.polymer(pi).polymer(inverse)
CallInverse ==
    /\ call \in {"polymer", "polymer_to"}
    /\ out.err = ""
    /\ LET s == IF call = "polymer"
                THEN polymer_none(Ok(ctx, out.val), InversePerm(arg.new_vars))
                ELSE polymer(Ok(ctx, out.val), InversePerm(arg.new_vars), arg.new_arity)
       IN  /\ call' = (IF call = "polymer" THEN "inverse" ELSE "inverse_to")
           /\ out' = [val |-> s.val, err |-> s.err]
           /\ ctx' = s.ctx
    /\ UNCHANGED <<rel, opers, arg, found>>

NextRoundTrip == CallPermute \/ CallPermuteTo \/ CallInverse

SpecRoundTrip == InitRoundTrip /\ [][NextRoundTrip]_vars

\* With new_arity given, and with the default on arity >= 1, both calls
\* return and the second returns R; polymer([]) with the default raises.
RoundTripWhereReturned ==
    /\ call \in {"polymer_to", "inverse_to"} => out.err = ""
    /\ call \in {"polymer", "inverse"} => (out.err = "" <=> rel.arity >= 1)
    /\ (call = "polymer" /\ rel.arity = 0) => out.err = "ValueError"
    /\ (call \in {"inverse", "inverse_to"} /\ out.err = "") => out.val = rel

\* C15: for any relation R of arity a and any permutation pi of its a
\* coordinates, R.polymer(pi).polymer(pi^-1) has the same size, arity and
\* table, cell for cell, as R.
C15_PolymerRoundTrip ==
    /\ call = "polymer" => out.err = ""
    /\ call = "inverse" => out.err = "" /\ out.val = rel

(***************************************************************************)
(* SpecDiagonal: R.polymer([0] * a) and R.reflexive() on a drawn relation. *)
(***************************************************************************)
InitDiagonal == InitPolymer

\* R.polymer([0 for _ in range(R.arity)])
CallDiagonal ==
    Returns("polymer", NoArg, polymer_none(Self, [i \in 1..rel.arity |-> 0]))

CallReflexive == Returns("reflexive", NoArg, reflexive(Self))

NextDiagonal == CallDiagonal \/ CallReflexive

SpecDiagonal == InitDiagonal /\ [][NextDiagonal]_vars

\* R(x, x, ..., x)
OnDiagonal(r, x) == Holds(r, [i \in 1..r.arity |-> x])

IsDiagonalOf(res, r) ==
    /\ res.size = r.size
    /\ res.arity = 1
    /\ Len(res.table.literals) = r.size
    /\ \A x \in 0..(r.size - 1) : res.table.literals[x + 1] = bool_lift(OnDiagonal(r, x))

IsReflexivityOf(u, r) ==
    u.literals = <<bool_lift(\A x \in 0..(r.size - 1) : OnDiagonal(r, x))>>

\* On arity >= 1 both calls return what the diagonal law says; on arity 0
\* both raise ValueError, from max() of the empty new_vars.
DiagonalWhereReturned ==
    /\ call = "polymer" =>
           IF rel.arity >= 1 THEN out.err = "" /\ IsDiagonalOf(out.val, rel)
           ELSE out.err = "ValueError"
    /\ call = "reflexive" =>
           IF rel.arity >= 1 THEN out.err = "" /\ IsReflexivityOf(out.val, rel)
           ELSE out.err = "ValueError"

\* C16: for any relation R of arity a, R.polymer([0]*a) is the unary
\* relation whose cell x equals R(x, x, ..., x) for every x of the universe,
\* and R.reflexive() is the single proposition that is the conjunction of
\* those cells.
C16_DiagonalLaw ==
    /\ call = "polymer" => out.err = "" /\ IsDiagonalOf(out.val, rel)
    /\ call = "reflexive" => out.err = "" /\ IsReflexivityOf(out.val, rel)

(***************************************************************************)
(* The fold laws, on the calls of SpecFold.                                *)
(***************************************************************************)
\* C17: for any constant table T and any count in [0, arity],
\* T.fold_all(count) equals ~((~T).fold_any(count)) cell for cell.
C17_FoldDuality ==
    (call = "fold_all" /\ arg.count <= rel.arity) =>
        /\ out.err = ""
        /\ RelNot(fold_any(RelNot(Self), arg.count)).err = ""
        /\ out.val = RelNot(fold_any(RelNot(Self), arg.count)).val

\* A fold_all over blocks of several cells with both outcomes in its table.
C17_Witness ==
    /\ call = "fold_all"
    /\ out.err = ""
    /\ rel.size >= 2
    /\ arg.count >= 1
    /\ \E i, j \in 1..Len(out.val.table.literals) :
           out.val.table.literals[i] = SolverTRUE /\ out.val.table.literals[j] = SolverFALSE

\* Each folded block holds exactly one cell.
SingletonBlocks == arg.count <= rel.arity /\ rel.size ^ arg.count = 1

\* C18 as claimed: on singleton blocks fold_one returns the same table as
\* fold_any and fold_amo the same table as fold_all.
C18_SingletonAgree ==
    /\ (call = "fold_one" /\ SingletonBlocks) =>
           out.err = "" /\ out.val = fold_any(Self, arg.count).val
    /\ (call = "fold_amo" /\ SingletonBlocks) =>
           out.err = "" /\ out.val = fold_all(Self, arg.count).val

\* C18 amended: on singleton blocks fold_one, fold_any and fold_all all
\* return the cells of T unchanged, and fold_amo returns the table that is
\* TRUE in every cell, so it agrees with fold_all only where T is TRUE.
C18_SingletonFolds ==
    /\ (call \in {"fold_one", "fold_any", "fold_all"} /\ SingletonBlocks) =>
           /\ out.err = ""
           /\ out.val.table = rel.table
           /\ out.val = fold_any(Self, arg.count).val
           /\ out.val = fold_one(Self, arg.count).val
    /\ (call = "fold_amo" /\ SingletonBlocks) =>
           /\ out.err = ""
           /\ out.val.size = rel.size
           /\ out.val.arity = rel.arity - arg.count
           /\ Len(out.val.table.literals) = Len(rel.table.literals)
           /\ \A i \in 1..Len(rel.table.literals) : out.val.table.literals[i] = SolverTRUE

\* A fold_amo over singleton blocks of a table with a FALSE cell.
C18_Witness ==
    /\ call = "fold_amo"
    /\ SingletonBlocks
    /\ out.err = ""
    /\ rel.size >= 2
    /\ rel.arity >= 1
    /\ \E i \in 1..Len(rel.table.literals) :
           rel.table.literals[i] = SolverFALSE /\ out.val.table.literals[i] = SolverTRUE

(***************************************************************************)
(* SpecPosets: the enumerate-and-exclude loop of test_number_of_posets.    *)
(* rel is the variable binary relation on three elements; found holds the  *)
(* decoded solutions reported so far and arg.count their count.            *)
(***************************************************************************)
\* x.ensure_all() on the BitVec a thread returns
EnsureAll(s) == IF s.err # "" THEN s ELSE Ensure("all", s.ctx, s.val)

\* The polarity the solver tries first for its k-th variable; the pattern
\* of a phase repeats every four variables.
PhaseBit(phase, k) == (phase \div (2 ^ ((k - 1) % 4))) % 2 = 1

\* How far an assignment is from the solver's preferred polarities: the
\* number its disagreements spell, variable k the k-th binary digit.
CodeOf(phase, asg) ==
    SumUpTo([k \in 1..Cardinality(DOMAIN asg) |->
                IF asg[CHOOSE v \in DOMAIN asg :
                          Cardinality({w \in DOMAIN asg : w <= v}) = k]
                   # PhaseBit(phase, k)
                THEN 2 ^ (k - 1) ELSE 0],
            Cardinality(DOMAIN asg))

\* Solver.solve(): the model the solver settles on, the one nearest to its
\* preferred polarities; no model when the clauses are unsatisfiable.
SolveChoices(st, phase) ==
    LET ms == Models(st)
    IN  {asg \in ms : \A o \in ms : CodeOf(phase, asg) <= CodeOf(phase, o)}

InitPosets ==
    /\ ctx = RelationVariable(NoSolvers, 3, 2, "s1").ctx
    /\ rel = RelationVariable(NoSolvers, 3, 2, "s1").val
    /\ opers = <<>>
    /\ \E phase \in 0..MaxPhase : arg = [phase |-> phase, count |-> 0]
    /\ call = "init"
    /\ out = NoOut
    /\ found = {}

\* rel.reflexive().ensure_all(); rel.antisymm().ensure_all();
\* rel.transitive().ensure_all()
PosetConstrain ==
    /\ call = "init"
    /\ LET r == EnsureAll(reflexive(Self))
           a == EnsureAll(antisymm(Ok(r.ctx, rel)))
           s == EnsureAll(transitive(Ok(a.ctx, rel)))
       IN  /\ ctx' = s.ctx
           /\ out' = [val |-> NoValue, err |-> s.err]
    /\ call' = "constrained"
    /\ UNCHANGED <<rel, opers, arg, found>>

\* One round of the loop: solve() is True; val = rel.solution(); count += 1;
\* (rel ^ val).ensure_any()
PosetSolve ==
    /\ call \in {"constrained", "solve"}
    /\ \E asg \in SolveChoices(ctx["s1"], arg.phase) :
           LET val == solution(Self, asg)
               x == RelXor(Self, val.val)
               e == IF x.err # "" THEN x ELSE Ensure("any", x.ctx, x.val.table)
           IN  /\ ctx' = e.ctx
               /\ out' = [val |-> val.val, err |-> e.err]
               /\ found' = found \cup {val.val.table.literals}
    /\ arg' = [arg EXCEPT !.count = @ + 1]
    /\ call' = "solve"
    /\ UNCHANGED <<rel, opers>>

\* solve() is not True: the loop ends.
PosetDone ==
    /\ call \in {"constrained", "solve"}
    /\ Models(ctx["s1"]) = {}
    /\ call' = "done"
    /\ UNCHANGED <<ctx, rel, opers, arg, out, found>>

NextPosets == PosetConstrain \/ PosetSolve \/ PosetDone

SpecPosets == InitPosets /\ [][NextPosets]_vars

\* The tables (cell x + 3 * y for the pair (x, y)) of the partial orders on
\* {0, 1, 2}.
IsPosetTable(lits) ==
    LET R(x, y) == lits[x + 3 * y + 1] = SolverTRUE
        U == 0..2
    IN  /\ \A x \in U : R(x, x)
        /\ \A x, y \in U : (R(x, y) /\ R(y, x)) => x = y
        /\ \A x, y, z \in U : (R(x, y) /\ R(y, z)) => R(x, z)

PosetTables == {lits \in [1..9 -> {SolverTRUE, SolverFALSE}] : IsPosetTable(lits)}

\* C19: the loop reports every satisfying relation exactly once and
\* terminates after exactly 19 solutions.
C19_PosetCount ==
    /\ arg.count = Cardinality(found)
    /\ found \subseteq PosetTables
    /\ arg.count <= 19
    /\ (call = "solve" /\ arg.count = 19) => Models(ctx["s1"]) = {}
    /\ call = "done" => (arg.count = 19 /\ found = PosetTables)

\* The loop has ended with 19 solutions reported.
C19_Witness ==
    /\ call = "done"
    /\ arg.count = 19
    /\ Cardinality(found) = 19

(***************************************************************************)
(* SpecCommutative: the loop of test_commutative_ops.  opers[1] is the     *)
(* variable binary operation on two elements; found holds the decoded      *)
(* functions reported so far.                                              *)
(***************************************************************************)
InitCommutative ==
    /\ ctx = OperationVariable(NoSolvers, 2, 2, "s1").ctx
    /\ rel = NoValue
    /\ opers = <<OperationVariable(NoSolvers, 2, 2, "s1").val>>
    /\ \E phase \in 0..MaxPhase : arg = [phase |-> phase, count |-> 0]
    /\ call = "init"
    /\ out = NoOut
    /\ found = {}

\* test = oper.comp_eq(oper.polymer([1, 0])); solver.add_clause(test.literals)
\* (new_arity defaults to max(new_vars) + 1 = 2)
CommConstrain ==
    /\ call = "init"
    /\ LET p == op_polymer(Ok(ctx, Op), <<1, 0>>, 2)
           test == IF p.err # "" THEN p ELSE op_comp_eq(Ok(p.ctx, Op), p.val)
           s == IF test.err # "" THEN test ELSE Ensure("any", test.ctx, test.val)
       IN  /\ ctx' = s.ctx
           /\ out' = [val |-> NoValue, err |-> s.err]
    /\ call' = "constrained"
    /\ UNCHANGED <<rel, opers, arg, found>>

\* One round: val = oper.solution(); val.decode();
\* solver.add_clause((oper.table ^ val.table).literals)
CommSolve ==
    /\ call \in {"constrained", "solve"}
    /\ \E asg \in SolveChoices(ctx["s1"], arg.phase) :
           LET val == op_solution(Ok(ctx, Op), asg)
               d == op_decode(val)
               x == BitVecBin("xor", ctx, Op.table, val.val.table)
               e == IF x.err # "" THEN x ELSE Ensure("any", x.ctx, x.val)
           IN  /\ ctx' = e.ctx
               /\ out' = [val |-> d.val, err |-> IF d.err # "" THEN d.err ELSE e.err]
               /\ found' = found \cup {d.val}
    /\ arg' = [arg EXCEPT !.count = @ + 1]
    /\ call' = "solve"
    /\ UNCHANGED <<rel, opers>>

\* solve() is not True: the loop ends.
CommDone ==
    /\ call \in {"constrained", "solve"}
    /\ Models(ctx["s1"]) = {}
    /\ call' = "done"
    /\ UNCHANGED <<ctx, rel, opers, arg, out, found>>

NextCommutative == CommConstrain \/ CommSolve \/ CommDone

SpecCommutative == InitCommutative /\ [][NextCommutative]_vars

\* The decoded binary functions f on {0, 1} (f(x, y) at place x + 2 * y)
\* with f(x, y) = f(y, x).
CommutativeFunctions ==
    {d \in [1..4 -> 0..1] : \A x, y \in 0..1 : d[x + 2 * y + 1] = d[y + 2 * x + 1]}

\* C20: asserting op.comp_eq(op.polymer([1, 0])) on a variable binary
\* operation on two elements and enumerating the models, each excluded once
\* found, yields exactly 8 distinct decoded functions: the binary operations
\* f with f(x, y) = f(y, x).
C20_CommutativeOps ==
    /\ out.err = ""
    /\ arg.count = Cardinality(found)
    /\ found \subseteq CommutativeFunctions
    /\ call = "done" => (Cardinality(found) = 8 /\ found = CommutativeFunctions)

\* The enumeration has ended with 8 functions reported.
C20_Witness ==
    /\ call = "done"
    /\ Cardinality(found) = 8
    /\ <<0, 1, 1, 0>> \in found

(***************************************************************************)
(* SpecHost: an instance built from a host-level table (arg.host) and      *)
(* decoded up to MaxCalls times; found collects every value returned.      *)
(***************************************************************************)
\* The list of values of a seed: its base-(n + 1) digits less one, so that
\* None (here -1) occurs among them.
OptionalVals(n, len, seed) ==
    [i \in 1..len |-> ((seed \div ((n + 1) ^ ((i - 1) % PatternWidth))) % (n + 1)) - 1]

\* Relation(size, arity, host), Operation(...), PartialOp(...)
HostObject(kind, n, a, host) ==
    CASE kind = "Relation" -> RelationBools(NoSolvers, n, a, host)
      [] kind = "Operation" -> OperationList(NoSolvers, n, a, host)
      [] kind = "PartialOp" -> PartialOpList(NoSolvers, n, a, host)

HostTables(kind, n, a) ==
    CASE kind = "Relation" -> {PatternBools(seed, n ^ a) : seed \in Seeds}
      [] kind = "Operation" ->
            {[i \in 1..(n ^ a) |-> (seed \div (n ^ ((i - 1) % PatternWidth))) % n] :
                 seed \in Seeds}
      [] kind = "PartialOp" -> {OptionalVals(n, n ^ a, seed) : seed \in Seeds}

InitHost ==
    /\ ctx = NoSolvers
    /\ \E kind \in {"Relation", "Operation", "PartialOp"}, n \in Sizes, a \in 0..MaxInner :
           \E host \in HostTables(kind, n, a) :
               /\ rel = HostObject(kind, n, a, host).val
               /\ arg = [kind |-> kind, host |-> host, count |-> 0]
    /\ opers = <<>>
    /\ call = "init"
    /\ out = NoOut
    /\ found = {}

\* One more decode() of the instance.
Decodes(kind, s) ==
    /\ arg.kind = kind
    /\ arg.count < MaxCalls
    /\ arg' = [arg EXCEPT !.count = @ + 1]
    /\ call' = "decode"
    /\ ctx' = s.ctx
    /\ out' = [val |-> s.val, err |-> s.err]
    /\ found' = found \cup {<<s.err, s.val>>}
    /\ UNCHANGED <<rel, opers>>

HostRelationDecode == Decodes("Relation", rel_decode(Self))

HostOperationDecode == Decodes("Operation", op_decode(Self))

HostPartialOpDecode == Decodes("PartialOp", partialop_decode(Self))

NextHost == HostRelationDecode \/ HostOperationDecode \/ HostPartialOpDecode

SpecHost == InitHost /\ [][NextHost]_vars

\* C21: decode() of a constant-backed Relation, Operation or PartialOp is
\* repeatable: successive calls return equal values and leave size, arity
\* and table as constructed, and the value is the host-level table the
\* instance was built from.
C21_DecodeRepeatable ==
    /\ Cardinality(found) <= 1
    /\ rel = HostObject(arg.kind, rel.size, rel.arity, arg.host).val
    /\ ctx = NoSolvers
    /\ call = "decode" => (out.err = "" /\ out.val = arg.host)

\* A PartialOp with a None entry and a defined one, decoded more than once.
C21_Witness ==
    /\ call = "decode"
    /\ arg.kind = "PartialOp"
    /\ arg.count >= 2
    /\ \E i, j \in 1..Len(arg.host) : arg.host[i] < 0 /\ arg.host[j] > 0
    /\ out.val = arg.host

(***************************************************************************)
(* SpecProduct: a ProductAlg of two SmallAlg factors (arg.lens their       *)
(* lengths); opers holds two parts and an element, each on the calculator  *)
(* or on a live solver.                                                    *)
(***************************************************************************)
InitProduct ==
    /\ ctx = new_variable(new_variable(NoSolvers, "s1", 2 * MaxLen).ctx, "s2", 2 * MaxLen).ctx
    /\ rel = NoValue
    /\ \E lens \in [1..2 -> 1..MaxLen], plens \in [1..2 -> 1..MaxLen],
          elen \in 2..(2 * MaxLen), seed \in 0..MaxArgSeed, sids \in [1..3 -> Contexts] :
           /\ opers = <<InputBitVec(sids[1], plens[1], seed),
                        InputBitVec(sids[2], plens[2], seed \div 2),
                        InputBitVec(sids[3], elen, seed)>>
           /\ arg = [lens |-> lens]
    /\ call = "init"
    /\ out = NoOut
    /\ found = {}

\* ProductAlg([SmallAlg, SmallAlg]) with factors of the drawn lengths
TheProduct ==
    ProductAlgOf(<<SmallAlg(arg.lens[1], <<2>>), SmallAlg(arg.lens[2], <<2>>)>>, <<2>>)

\* alg.splitup(alg.combine(parts))
CallSplitupCombine ==
    Returns("splitup_combine", arg,
            LET e == combine(ctx, TheProduct, <<opers[1], opers[2]>>)
            IN  IF e.err # "" THEN e ELSE splitup(e.ctx, TheProduct, e.val))

\* alg.combine(alg.splitup(elem))
CallCombineSplitup ==
    Returns("combine_splitup", arg,
            LET ps == splitup(ctx, TheProduct, opers[3])
            IN  IF ps.err # "" THEN ps ELSE combine(ps.ctx, TheProduct, ps.val))

NextProduct == CallSplitupCombine \/ CallCombineSplitup

SpecProduct == InitProduct /\ [][NextProduct]_vars

\* What the code does: splitup cuts at the factor lengths whatever the
\* lengths of the parts combine was given, the pieces spell the parts'
\* literals in order, and combine after splitup spells elem's literals.
ProductSlicesAtFactors ==
    /\ (call = "splitup_combine" /\ out.err = "") =>
           /\ Len(out.val) = 2
           /\ \A i \in 1..2 : Len(out.val[i].literals) = arg.lens[i]
           /\ out.val[1].literals \o out.val[2].literals
                  = opers[1].literals \o opers[2].literals
    /\ call = "combine_splitup" =>
           IF Len(opers[3].literals) = arg.lens[1] + arg.lens[2]
           THEN out.err = "" /\ out.val.literals = opers[3].literals
           ELSE out.err = "AssertionError"

\* C22: for every list of parts combine accepts, splitup(combine(parts))
\* returns the parts unchanged, one per factor and in factor order, and
\* combine(splitup(elem)) has the literal sequence of elem.
C22_ProductRoundTrip ==
    /\ (call = "splitup_combine" /\ out.err = "") =>
           /\ Len(out.val) = 2
           /\ \A i \in 1..2 : out.val[i].literals = opers[i].literals
    /\ (call = "combine_splitup" /\ out.err = "") =>
           out.val.literals = opers[3].literals

(***************************************************************************)
(* SpecPaths: the specialized algorithms called directly on a drawn k-ary  *)
(* relation and k drawn tables of common arity m, k and m in 1..3, where   *)
(* the generic algorithm's table of size ^ (k * m) cells is within         *)
(* MaxCells.                                                               *)
(***************************************************************************)
InitPaths ==
    /\ ctx = NoSolvers
    /\ \E n \in Sizes, k \in 1..3, m \in 1..3, seed \in Seeds, oseed \in 0..MaxOperSeed :
           /\ n ^ (k * m) <= MaxCells
           /\ rel = InputRelation(n, k, seed)
           /\ opers = InputOpers(n, k, m, oseed)
    /\ arg = NoArg
    /\ call = "init"
    /\ out = NoOut
    /\ found = {}

CallEvaluateN2 ==
    /\ opers[1].arity = 2
    /\ Returns("_evaluate_n2", NoArg, evaluate_n2(Self, opers))

CallEvaluateN3 ==
    /\ opers[1].arity = 3
    /\ Returns("_evaluate_n3", NoArg, evaluate_n3(Self, opers))

CallEvaluate2m ==
    /\ rel.arity = 2
    /\ Returns("_evaluate_2m", NoArg, evaluate_2m(Self, opers[1], opers[2]))

NextPaths == CallEvaluateN2 \/ CallEvaluateN3 \/ CallEvaluate2m

SpecPaths == InitPaths /\ [][NextPaths]_vars

\* The result of a call is the result of the generic algorithm.
SameAsGeneric ==
    /\ out.err = ""
    /\ evaluate_nm(Self, opers).err = ""
    /\ out.val = evaluate_nm(Self, opers).val

\* An image that is neither empty nor full.
MixedResult ==
    /\ out.err = ""
    /\ \E p, q \in DOMAIN out.val.table.literals :
           out.val.table.literals[p] # out.val.table.literals[q]

\* C23: for every k in 1..3, every k-ary relation R and every list of k
\* binary tables over the same universe, R._evaluate_n2(opers) returns the
\* table of the generic R._evaluate_nm(opers).
C23_N2IsGeneric == call = "_evaluate_n2" => SameAsGeneric

\* A ternary relation over three elements with three binary tables.
C23_Witness ==
    /\ call = "_evaluate_n2"
    /\ rel.size = 3 /\ rel.arity = 3
    /\ MixedResult

\* C24: for every k in 1..3, every k-ary relation R and every list of k
\* ternary tables over the same universe, R._evaluate_n3(opers) returns the
\* table of the generic R._evaluate_nm(opers).
C24_N3IsGeneric == call = "_evaluate_n3" => SameAsGeneric

\* A ternary relation over two elements with three ternary tables.
C24_Witness ==
    /\ call = "_evaluate_n3"
    /\ rel.size = 2 /\ rel.arity = 3
    /\ MixedResult

\* C25: for every binary relation R and every pair of tables of common
\* arity m in 1..3 over the same universe, R._evaluate_2m(oper0, oper1)
\* returns the table of the generic R._evaluate_nm([oper0, oper1]).
C25_2mIsGeneric == call = "_evaluate_2m" => SameAsGeneric

\* A binary relation over three elements with two ternary tables.
C25_Witness ==
    /\ call = "_evaluate_2m"
    /\ rel.size = 3 /\ opers[1].arity = 3
    /\ MixedResult

(***************************************************************************)
(* SpecOpPolymer: polymer on an Operation or PartialOp (rel), constant or  *)
(* variable-backed, with every map new_vars into [0, new_arity).           *)
(***************************************************************************)
InitOpPolymer ==
    /\ \E n \in Sizes, a \in 0..MaxArity, seed \in 0..MaxOperSeed,
          kind \in {"Operation", "PartialOp"}, live \in BOOLEAN :
           LET s == CASE kind = "Operation" /\ live -> OperationVariable(NoSolvers, n, a, "s1")
                      [] kind = "PartialOp" /\ live -> PartialOpVariable(NoSolvers, n, a, "s1")
                      [] kind = "Operation" /\ ~live ->
                             Ok(NoSolvers, InputOperation(n, a, seed))
                      [] kind = "PartialOp" /\ ~live ->
                             PartialOpList(NoSolvers, n, a, OptionalVals(n, n ^ a, seed))
           IN  /\ ctx = s.ctx
               /\ rel = s.val
               /\ arg = [kind |-> kind, new_vars |-> <<>>, new_arity |-> 0]
    /\ opers = <<>>
    /\ call = "init"
    /\ out = NoOut
    /\ found = {}

\* op.polymer(new_vars, new_arity); Operation and PartialOp share the code.
CallOperationPolymer ==
    /\ arg.kind = "Operation"
    /\ \E na \in 0..MaxArity : \E nv \in [1..rel.arity -> 0..(na - 1)] :
           Returns("polymer", [arg EXCEPT !.new_vars = nv, !.new_arity = na],
                   op_polymer(Self, nv, na))

CallPartialOpPolymer ==
    /\ arg.kind = "PartialOp"
    /\ \E na \in 0..MaxArity : \E nv \in [1..rel.arity -> 0..(na - 1)] :
           Returns("partialop_polymer", [arg EXCEPT !.new_vars = nv, !.new_arity = na],
                   op_polymer(Self, nv, na))

NextOpPolymer == CallOperationPolymer \/ CallPartialOpPolymer

SpecOpPolymer == InitOpPolymer /\ [][NextOpPolymer]_vars

\* The output blocks of an operation: its table cut every size cells.
OutputBlocks(r) ==
    {SubSeq(r.table.literals, b * r.size + 1, (b + 1) * r.size) :
         b \in 0..(Len(r.table.literals) \div r.size - 1)}

\* C26: op.polymer(new_vars, new_arity).as_relation() has the table of
\* op.as_relation().polymer([0] + [v + 1 for v in new_vars], new_arity + 1):
\* the result coordinate is kept and the input coordinates are remapped, so
\* every output block of the result is an output block of op.
C26_OpPolymerIsRelPolymer ==
    call \in {"polymer", "partialop_polymer"} =>
        LET viaRel == polymer(as_relation(Self),
                              <<0>> \o [i \in 1..Len(arg.new_vars) |-> arg.new_vars[i] + 1],
                              arg.new_arity + 1)
            viaOp == as_relation(Ok(ctx, out.val))
        IN  /\ out.err = ""
            /\ viaRel.err = ""
            /\ viaOp.err = ""
            /\ viaOp.val = viaRel.val
            /\ out.val.arity = arg.new_arity
            /\ OutputBlocks(out.val) \subseteq OutputBlocks(rel)

\* A variable-backed ternary operation over three elements, its inputs
\* remapped by a map that is neither the identity nor constant.
C26_Witness ==
    /\ call = "polymer"
    /\ rel.size = 3 /\ rel.arity = 3
    /\ rel.table.solver = "s1"
    /\ arg.new_vars = <<2, 0, 2>>
    /\ out.err = ""

(***************************************************************************)
(* SpecRelCompose: R.compose(S) on drawn binary relations R (rel) and S    *)
(* (opers[1]) over the same universe.                                      *)
(***************************************************************************)
InitRelCompose ==
    /\ ctx = NoSolvers
    /\ \E n \in Sizes, seed \in Seeds, oseed \in Seeds :
           /\ rel = InputRelation(n, 2, seed)
           /\ opers = <<InputRelation(n, 2, oseed)>>
    /\ arg = NoArg
    /\ call = "init"
    /\ out = NoOut
    /\ found = {}

CallRelCompose == Returns("compose", NoArg, rel_compose(Self, opers[1]))

\* R.compose(R), as transitive() calls it
CallSelfCompose == Returns("compose_self", NoArg, rel_compose(Self, rel))

NextRelCompose == CallRelCompose \/ CallSelfCompose

SpecRelCompose == InitRelCompose /\ [][NextRelCompose]_vars

\* res is the composition of r with s: (a, b) iff r(a, m) and s(m, b) for
\* some m.
IsComposition(res, r, s) ==
    /\ res.size = r.size
    /\ res.arity = 2
    /\ \A a, b \in 0..(r.size - 1) :
           Holds(res, <<a, b>>) <=>
               \E m \in 0..(r.size - 1) : Holds(r, <<a, m>>) /\ Holds(s, <<m, b>>)

\* What the code does: the result is the composition of R with R, whatever
\* S is.
ComposeIsSelfComposition ==
    call \in {"compose", "compose_self"} => (out.err = "" /\ IsComposition(out.val, rel, rel))

\* C27: for all binary relations R and S over the same universe
\* R.compose(S) is the relational composition of R with S: its cell (a, b)
\* is true iff there is m with R(a, m) and S(m, b).
C27_ComposeIsComposition ==
    call = "compose" => (out.err = "" /\ IsComposition(out.val, rel, opers[1]))

(***************************************************************************)
(* SpecStatic: the static constructors new_diag, new_proj and              *)
(* new_singleton on every drawn size, arity and coordinate list; arg holds *)
(* the arguments of the call.                                              *)
(***************************************************************************)
InitStatic ==
    /\ ctx = NoSolvers
    /\ rel = NoValue
    /\ opers = <<>>
    /\ arg = [size |-> 0, arity |-> 0, coord |-> <<>>]
    /\ call = "init"
    /\ out = NoOut
    /\ found = {}

\* Relation.new_diag(size, arity), size below 1 included
CallNewDiag ==
    \E n \in 0..MaxSize, a \in 0..MaxArity :
        Returns("new_diag", [size |-> n, arity |-> a, coord |-> <<>>],
                new_diag(ctx, n, a))

\* Operation.new_proj(size, arity, coord)
CallNewProj ==
    \E n \in Sizes, a \in 1..MaxInner, c \in 0..MaxInner :
        Returns("new_proj", [size |-> n, arity |-> a, coord |-> <<c>>],
                new_proj(ctx, n, a, c))

\* Relation.new_singleton(size, coord), coordinates outside [0, size)
\* included
CallNewSingleton ==
    \E n \in Sizes, len \in 0..MaxArity : \E coord \in [1..len -> (-1)..n] :
        Returns("new_singleton", [size |-> n, arity |-> len, coord |-> coord],
                new_singleton(ctx, n, coord))

NextStatic == CallNewDiag \/ CallNewProj \/ CallNewSingleton

SpecStatic == InitStatic /\ [][NextStatic]_vars

\* The true cells of res are the tuples with all coordinates equal.
IsDiagonal(res, n, a) ==
    /\ res.size = n
    /\ res.arity = a
    /\ Len(res.table.literals) = n ^ a
    /\ \A x \in Tuples(n, a) :
           Holds(res, x) <=> \A i, j \in 1..a : x[i] = x[j]
    /\ a >= 1 => Cardinality(TuplesOf(res)) = n

\* What the code does: new_diag returns the diagonal wherever it returns,
\* and within its precondition it fails exactly for size >= 2 and arity 0;
\* new_proj, built on new_diag(size, 2), returns the graph of a projection.
NewDiagWhereReturned ==
    /\ call = "new_diag" =>
           /\ out.err = "" => IsDiagonal(out.val, arg.size, arg.arity)
           /\ out.err # "" <=> (arg.size < 1 \/ (arg.size >= 2 /\ arg.arity = 0))
           /\ (arg.size >= 2 /\ arg.arity = 0) => out.err = "ValueError"
    /\ (call = "new_proj" /\ arg.coord[1] < arg.arity) =>
           /\ out.err = ""
           /\ \A x \in Tuples(arg.size, arg.arity + 1) :
                  Holds(as_relation(Ok(ctx, out.val)).val, x) <=> x[1] = x[arg.coord[1] + 2]

\* C28: for every size >= 1 and arity >= 0 new_diag(size, arity) returns a
\* relation of length size ^ arity whose true cells are exactly the tuples
\* with all coordinates equal (exactly size of them when arity >= 1).
C28_NewDiag ==
    (call = "new_diag" /\ arg.size >= 1 /\ arg.arity >= 0) =>
        (out.err = "" /\ IsDiagonal(out.val, arg.size, arg.arity))

\* Every coordinate of the call is an element of the universe.
CoordInRange == \A i \in 1..Len(arg.coord) : 0 <= arg.coord[i] /\ arg.coord[i] < arg.size

\* res holds exactly the tuple coord.
IsSingleton(res, n, coord) ==
    /\ res.size = n
    /\ res.arity = Len(coord)
    /\ TuplesOf(res) = {coord}

\* What the code does: with every coordinate in [0, size) the result is the
\* singleton of coord; with one outside it the flat index is taken as it
\* comes, from the end of the table when negative, and the call fails only
\* when that index is outside the table.
SingletonWhereInRange ==
    call = "new_singleton" =>
        /\ CoordInRange => (out.err = "" /\ IsSingleton(out.val, arg.size, arg.coord))
        /\ out.err = "" => Cardinality(TuplesOf(out.val)) = 1
        /\ out.err # "" =>
               LET pos == Flat(arg.coord, arg.size)
                   length == arg.size ^ Len(arg.coord)
               IN  pos >= length \/ pos < -length

\* C29: for every size >= 1 and every list coord, new_singleton(size, coord)
\* either fails or returns a relation of arity len(coord) with exactly one
\* true cell, the tuple coord itself with every coord[i] in [0, size); it
\* never returns a relation whose true cell is a different tuple.
C29_SingletonOrFails ==
    call = "new_singleton" =>
        \/ out.err # ""
        \/ CoordInRange /\ IsSingleton(out.val, arg.size, arg.coord)

(***************************************************************************)
(* SpecQuantifiers: the quantifier helpers of src/uasat/formulas.py.       *)
(* arg.next_index is Variable.next_index; opers is the stack of quantifier *)
(* calls whose callable is running, innermost last, each frame holding the *)
(* helper called, the indices of the variables handed to the callable and  *)
(* the value of the counter when the helper was entered; out records the   *)
(* counter before and after the call that ended last.                      *)
(***************************************************************************)
Quantifiers == {"Domain.forall", "Domain.exists", "forall", "exists"}

\* variables = [Variable(d, Variable.next_index + i) for i in range(n)]
NewVariables(next, n) == {next + i : i \in 0..(n - 1)}

\* The counter after the try block has run a finally clause that is skipped
\* when the callable raises.
AfterCallable_NoFinally(next, n, raised) == IF raised THEN next ELSE next - n

\* finally: Variable.next_index -= num_vars, on return and on raise alike
AfterCallable(next, n, raised) == next - n

InitQuantifiers ==
    /\ ctx = NoSolvers
    /\ rel = NoValue
    /\ opers = <<>>
    /\ arg = [next_index |-> 0]
    /\ call = "idle"
    /\ out = [val |-> [before |-> 0, after |-> 0], err |-> ""]
    /\ found = {}

\* A helper is called, from the top level or from a running callable, with
\* n variables to bind (num_vars, the callable's parameter count, or
\* len(domains)); the counter is raised and the callable starts.
CallQuantifier ==
    /\ call \in {"idle", "running"}
    /\ Len(opers) < MaxDepth
    /\ \E kind \in Quantifiers, n \in 0..MaxBinder :
           /\ opers' = Append(opers, [kind |-> kind, n |-> n,
                                      vars |-> NewVariables(arg.next_index, n),
                                      entry |-> arg.next_index])
           /\ arg' = [arg EXCEPT !.next_index = @ + n]
    /\ call' = "running"
    /\ UNCHANGED <<ctx, rel, out, found>>

\* The innermost helper ends: its frame is dropped and the finally clause
\* has run.
Leaves(raised) ==
    LET f == opers[Len(opers)]
        next == AfterCallable(arg.next_index, f.n, raised)
    IN  /\ opers' = SubSeq(opers, 1, Len(opers) - 1)
        /\ arg' = [arg EXCEPT !.next_index = next]
        /\ out' = [val |-> [before |-> f.entry, after |-> next],
                   err |-> IF raised THEN "raised" ELSE ""]

\* The innermost callable returns a boolean term: the helper returns.
CallableReturns ==
    /\ call = "running"
    /\ Len(opers) >= 1
    /\ Leaves(FALSE)
    /\ call' = IF Len(opers) = 1 THEN "idle" ELSE "running"
    /\ UNCHANGED <<ctx, rel, found>>

\* The innermost callable raises, returns something that fails the assert,
\* or lets the exception of a helper it called pass: the helper raises.
CallableRaises ==
    /\ call \in {"running", "raising"}
    /\ Len(opers) >= 1
    /\ Leaves(TRUE)
    /\ call' = "raising"
    /\ UNCHANGED <<ctx, rel, found>>

\* The exception of a helper is caught by the callable that called it, or
\* by the top level.
Catches ==
    /\ call = "raising"
    /\ call' = IF Len(opers) = 0 THEN "idle" ELSE "running"
    /\ UNCHANGED <<ctx, rel, opers, arg, out, found>>

NextQuantifiers == CallQuantifier \/ CallableReturns \/ CallableRaises \/ Catches

SpecQuantifiers == InitQuantifiers /\ [][NextQuantifiers]_vars

====
